---- MODULE Spec2Model ----
(***************************************************************************)
(* A model of the vibe-inventory application: the browser client           *)
(* (src/src/App.jsx), the hosted tables it talks to, and the               *)
(* notify-low-stock edge function (src/unnamed/part_001).                  *)
(*                                                                         *)
(* Every `await` on the data client, the auth service or the email API is  *)
(* a point where other handlers and other invocations may run, so each     *)
(* handler is a small program counter machine whose steps are the          *)
(* stretches of code between two awaits.                                   *)
(***************************************************************************)
EXTENDS Integers, Sequences, FiniteSets, TLC

----------------------------------------------------------------------------
(* Bounds of the model *)

\* invocations of the edge function that are ever started
MaxInv == 2
\* last calendar day the clock reaches (days are 0..MaxDay)
MaxDay == 1
\* adjustConsumable calls that are ever started
MaxCalls == 2
\* largest on-hand count the + button is pressed at
MaxOnHand == 3
\* upsertItem / setAllChecked / addItem / removeItem calls ever started
MaxItemCalls == 2
\* loadConsumablesFromDb calls followed step by step
MaxLoads == 2
----------------------------------------------------------------------------
(* Strings.  TLC evaluates Len, SubSeq and \o on strings, so the string    *)
(* tests of the code are computed on the strings themselves.               *)

\* String.prototype.endsWith
EndsWith(s, suffix) ==
  /\ Len(s) >= Len(suffix)
  /\ SubSeq(s, Len(s) - Len(suffix) + 1, Len(s)) = suffix

\* String.prototype.includes
Includes(s, part) ==
  \E i \in 1..(Len(s) - Len(part) + 1) : SubSeq(s, i, i + Len(part) - 1) = part

\* String.prototype.startsWith
StartsWith(s, prefix) ==
  /\ Len(s) >= Len(prefix)
  /\ SubSeq(s, 1, Len(prefix)) = prefix

\* one character of String.prototype.toLowerCase, on the letters A-Z
LowerChar(c) ==
  CASE c = "A" -> "a" [] c = "B" -> "b" [] c = "C" -> "c" [] c = "D" -> "d"
    [] c = "E" -> "e" [] c = "F" -> "f" [] c = "G" -> "g" [] c = "H" -> "h"
    [] c = "I" -> "i" [] c = "J" -> "j" [] c = "K" -> "k" [] c = "L" -> "l"
    [] c = "M" -> "m" [] c = "N" -> "n" [] c = "O" -> "o" [] c = "P" -> "p"
    [] c = "Q" -> "q" [] c = "R" -> "r" [] c = "S" -> "s" [] c = "T" -> "t"
    [] c = "U" -> "u" [] c = "V" -> "v" [] c = "W" -> "w" [] c = "X" -> "x"
    [] c = "Y" -> "y" [] c = "Z" -> "z" [] OTHER -> c

RECURSIVE toLowerCase(_)
toLowerCase(s) ==
  IF Len(s) = 0 THEN ""
  ELSE LowerChar(SubSeq(s, 1, 1)) \o toLowerCase(SubSeq(s, 2, Len(s)))

\* the characters /\s/ matches, among those the model uses
IsSpace(c) == c = " "

RECURSIVE removeWhitespace(_)
removeWhitespace(s) ==
  IF Len(s) = 0 THEN ""
  ELSE (IF IsSpace(SubSeq(s, 1, 1)) THEN "" ELSE SubSeq(s, 1, 1))
         \o removeWhitespace(SubSeq(s, 2, Len(s)))

RECURSIVE trim(_)
trim(s) ==
  IF Len(s) = 0 THEN ""
  ELSE IF IsSpace(SubSeq(s, 1, 1)) THEN trim(SubSeq(s, 2, Len(s)))
  ELSE IF IsSpace(SubSeq(s, Len(s), Len(s))) THEN trim(SubSeq(s, 1, Len(s) - 1))
  ELSE s

\* String(u || "").trim().toLowerCase().replace(/\s+/g, "")
normalizeUsername(u) == removeWhitespace(toLowerCase(trim(u)))

----------------------------------------------------------------------------
(* Identities *)

ADMIN_USERNAMES == {"admin"}
ADMIN_EMAILS == {"admin@vibe-user.example.com"}

\* the domain of the synthetic login addresses
SyntheticDomain == "@vibe-user.example.com"

\* SQL NULL in a text column
Null == "<null>"

\* no row / no user / no session
None == "<none>"

\* The accounts of the auth service: user.id, user.email and the
\* user_metadata fields the client reads ("" for a missing field).
Accounts ==
  { [id |-> "u1", email |-> "admin@vibe-user.example.com", username |-> "admin",
     role |-> "", real_email |-> "boss@corp.example"],
    [id |-> "u2", email |-> "bob@vibe-user.example.com", username |-> "bob",
     role |-> "", real_email |-> "bob@corp.example"],
    [id |-> "u3", email |-> "cara@vibe-user.example.com", username |-> "cara",
     role |-> "", real_email |-> ""] }

UserIds == { a.id : a \in Accounts }

Account(uid) == CHOOSE a \in Accounts : a.id = uid

\* a || b on strings
OrElse(a, b) == IF a # "" THEN a ELSE b

\* a missing user: every field the client reads of it is undefined
NoUser == [id |-> "", email |-> "", username |-> "", role |-> "", real_email |-> ""]

\* s.split("@")[0]
RECURSIVE BeforeAt(_)
BeforeAt(s) ==
  IF Len(s) = 0 \/ SubSeq(s, 1, 1) = "@" THEN ""
  ELSE SubSeq(s, 1, 1) \o BeforeAt(SubSeq(s, 2, Len(s)))

\* the characters of [a-z0-9._-]
LocalChars ==
  {"a", "b", "c", "d", "e", "f", "g", "h", "i", "j", "k", "l", "m", "n",
   "o", "p", "q", "r", "s", "t", "u", "v", "w", "x", "y", "z", "0", "1",
   "2", "3", "4", "5", "6", "7", "8", "9", ".", "_", "-"}

\* the replace keeping every character
stripNonLocal_keepsAll(s) == s

\* replace(/[^a-z0-9._-]/g, "")
RECURSIVE stripNonLocal(_)
stripNonLocal(s) ==
  IF Len(s) = 0 THEN ""
  ELSE (IF SubSeq(s, 1, 1) \in LocalChars THEN SubSeq(s, 1, 1) ELSE "")
         \o stripNonLocal(SubSeq(s, 2, Len(s)))

\* usernameToAuthEmail(usernameRaw)
usernameToAuthEmail(usernameRaw) ==
  LET username == normalizeUsername(usernameRaw)
      localPart == stripNonLocal(username)
  IN  IF localPart # "" THEN localPart \o SyntheticDomain ELSE ""

\* the comparison of the role without lower-casing it
isAdminIdentity_exactRole(user, usernameHint) ==
  LET username == normalizeUsername(OrElse(user.username, usernameHint))
      email == toLowerCase(user.email)
  IN  user.role = "admin" \/ username \in ADMIN_USERNAMES \/ email \in ADMIN_EMAILS

\* isAdminIdentity(user, usernameHint = "")
isAdminIdentity(user, usernameHint) ==
  LET username == normalizeUsername(OrElse(user.username, usernameHint))
      email == toLowerCase(user.email)
      role == toLowerCase(user.role)
  IN  role = "admin" \/ username \in ADMIN_USERNAMES \/ email \in ADMIN_EMAILS

\* whether the holder of a user_profiles row is an admin
IsAdminUser(uid) == isAdminIdentity(Account(uid), "")

----------------------------------------------------------------------------
(* State *)

VARIABLES
  \* the browser client: React state of App and the auth session it holds
  session,           \* id of the user the auth service has a session for, or None
  currentUser,       \* useState currentUser: the username, "" when logged out
  isAdmin,           \* useState isAdmin
  authIdentity,      \* useState authIdentity.id, "" when unknown
  toast,             \* useState toast: the kind of the last toast, "" for none
  \* the hosted tables
  user_profiles,     \* user_id -> real_email (Null for SQL NULL), None for no row
  notification_logs, \* the rows of notification_logs
  \* the edge function and its surroundings
  now,               \* the calendar day of the clock
  brevoKey,          \* whether the BREVO_API_KEY secret is set
  inv,               \* the invocations of the edge function, by number
  brevoCalls,        \* the requests made to the email API
  \* consumables
  consumables_items, \* the rows of consumables_items, by id
  consumables,       \* useState consumables: the client's copy of the rows
  legacy,            \* localStorage vibe_consumables_v1: the legacy local list
  calls,             \* the adjustConsumable calls, by number
  \* equipment
  inventory_items,   \* the rows of inventory_items, by id
  items,             \* useState items: the client's copy of the rows
  isAdding,          \* useState isAdding
  itemCalls,         \* the calls of upsertItem, setAllChecked and addItem, by number
  lastRequest,       \* the last write request the client sent to a table
  \* feedback
  feedbackRows,      \* useState feedbackRows: the feedback_entries rows shown
  feedbackLoads,     \* the feedback queries sent and not yet answered
  \* sign-up and login form
  probe,             \* what is typed into the form and what the auth service holds for it
  \* pages
  loads,             \* the loadConsumablesFromDb calls, step by step, by number
  activePage,        \* useState activePage
  globalSearch,      \* useState globalSearch
  view,              \* useState query, filter, sort, equipmentJump, consumableJump
  listed             \* id, name and location of the entries of items and of
                     \* consumables, in list order, where the search is followed

authVars == <<session, currentUser, isAdmin, authIdentity, toast>>
fnVars == <<notification_logs, now, brevoKey, inv, brevoCalls>>
consVars == <<consumables_items, consumables, legacy, calls>>
itemVars == <<inventory_items, items, isAdding, itemCalls>>
fbVars == <<feedbackRows, feedbackLoads>>
pageVars == <<loads, activePage, globalSearch, view, listed>>
\* what the consumables page does not touch
notConsVars == <<fnVars, itemVars, fbVars, probe, pageVars>>
\* what the equipment page does not touch
notItemVars == <<fnVars, consVars, fbVars, probe, pageVars>>
\* what the edge function does not touch
notFnVars == <<authVars, user_profiles, consVars, itemVars, lastRequest, fbVars, probe, pageVars>>
vars == <<authVars, user_profiles, fnVars, consVars, itemVars, lastRequest, fbVars, probe, pageVars>>

\* the login and signup forms before anything was typed, and the user the
\* auth service holds for the typed name; lastAuth is the last of onLogin
\* ("login") and onLogout ("logout") to have completed
NoProbe ==
  [user |-> NoUser, raw |-> "", signupRaw |-> "", signupEmail |-> None,
   loginEmail |-> None, lastAuth |-> ""]

LoadIds == 1..MaxLoads

\* a loadConsumablesFromDb call that has not started: rows are the rows its
\* insert carries, by id; migrations counts its inserts that succeeded and
\* nested the loads it started from inside itself
IdleLoad == [pc |-> "idle", rows |-> {}, migrations |-> 0, nested |-> 0]

\* lines 264-266, 271-272: the list controls and the jump targets (the id
\* jumped to, "" for null); guardReset records that the effect at 320-324
\* has set the page
InitView ==
  [query |-> "", filter |-> "all", sort |-> "recent",
   equipmentJump |-> "", consumableJump |-> "", guardReset |-> FALSE]

\* lines 258-262 with nothing cached: both lists empty
NoListed == [items |-> <<>>, consumables |-> <<>>]

\* lines 253, 273 and no load running
InitPage ==
  /\ loads = [l \in LoadIds |-> IdleLoad]
  /\ activePage = "consumables"
  /\ globalSearch = ""
  /\ view = InitView
  /\ listed = NoListed
----------------------------------------------------------------------------
(* notify-low-stock edge function (src/unnamed/part_001) *)

InvIds == 1..MaxInv
Days == 0..MaxDay
\* ids of consumables_items
ConsumableIds == {"c1", "c2"}

\* request bodies: a body that is no JSON, or a payload whose consumable_id
\* and name are present or missing ("")
BadJson == [consumable_id |-> "<bad json>", name |-> "", on_hand |-> 0]
Payloads ==
  [consumable_id : ConsumableIds \cup {""}, name : {"Tape", ""}, on_hand : {1}]

NoResponse == [status |-> 0, message |-> ""]
Response(status, message) == [status |-> status, message |-> message]

\* seen is what the duplicate check of the invocation met: "error" for a
\* query that failed, "failed" for rows of today that are all failed, "none"
IdleInv ==
  [pc |-> "idle", payload |-> BadJson, midnight |-> 0, realEmails |-> {},
   logStatus |-> "", logEmails |-> {}, logged |-> 0, after |-> NoResponse,
   response |-> NoResponse, seen |-> ""]

\* the invocation leaves the handler with this response; its locals are gone
\* (the record keeps the payload's consumable and the count of rows it inserted)
Respond(i, rec, r) ==
  inv' = [inv EXCEPT ![i] = [IdleInv EXCEPT !.pc = "done", !.payload = rec.payload,
                                           !.logged = rec.logged, !.response = r]]

\* the payload check testing consumable_id alone
missingFields_idOnly(body) == body.consumable_id = ""

\* line 55: !payload.consumable_id || !payload.name
missingFields(body) == body.consumable_id = "" \/ body.name = ""

\* lines 31-60: method, key and payload checks, up to the duplicate-check query
\* being issued; midnight is new Date().setHours(0, 0, 0, 0) at that moment
FnRequest(i, method, body) ==
  /\ inv[i].pc = "idle"
  /\ \A j \in InvIds : j < i => inv[j].pc # "idle"
  /\ LET rec == inv[i]
     IN  IF method = "OPTIONS" THEN Respond(i, rec, Response(200, "ok"))
         ELSE IF method # "POST" THEN Respond(i, rec, Response(405, "Method not allowed"))
         ELSE IF ~brevoKey THEN Respond(i, rec, Response(500, "Missing BREVO_API_KEY in Edge Function secrets"))
         ELSE IF body = BadJson THEN Respond(i, rec, Response(500, "error.message"))
         ELSE IF missingFields(body)
           THEN Respond(i, rec, Response(400, "Missing required fields"))
         ELSE inv' = [inv EXCEPT ![i] = [rec EXCEPT !.pc = "dupcheck", !.payload = body,
                                                    !.midnight = now]]
  /\ UNCHANGED <<notFnVars, notification_logs, now, brevoKey, brevoCalls>>

\* the duplicate check without .eq("status", "sent")
recentNotif_anyStatus(payload, midnight) ==
  { r \in notification_logs :
      /\ r.consumable_id = payload.consumable_id
      /\ r.sent_at >= midnight }

\* the duplicate check with .gt("sent_at", ...) for .gte
recentNotif_gt(payload, midnight) ==
  { r \in notification_logs :
      /\ r.consumable_id = payload.consumable_id
      /\ r.sent_at > midnight
      /\ r.status = "sent" }

\* lines 63-72: the rows the duplicate-check query selects
recentNotif(payload, midnight) ==
  { r \in notification_logs :
      /\ r.consumable_id = payload.consumable_id
      /\ r.sent_at >= midnight
      /\ r.status = "sent" }

\* the rows of any status of the consumable since midnight
todaysRows(payload, midnight) ==
  { r \in notification_logs :
      /\ r.consumable_id = payload.consumable_id
      /\ r.sent_at >= midnight }

\* a handler that stops as a duplicate when the query fails
alreadySent_orError(checkError, rows) == checkError \/ rows # {}

\* line 78: recentNotif && recentNotif.length > 0 (data is null on an error)
alreadySent(checkError, rows) == ~checkError /\ rows # {}

\* lines 74-86: the query answers (checkError: it failed and data is null)
FnDupCheck(i, checkError) ==
  /\ inv[i].pc = "dupcheck"
  /\ IF alreadySent(checkError, recentNotif(inv[i].payload, inv[i].midnight))
       THEN Respond(i, inv[i], Response(200, "Notification already sent today for this item"))
       ELSE inv' = [inv EXCEPT ![i] =
              [@ EXCEPT !.pc = "lookup",
                        !.seen = IF checkError THEN "error"
                                 ELSE IF todaysRows(inv[i].payload, inv[i].midnight) # {}
                                   THEN "failed" ELSE "none"]]
  /\ UNCHANGED <<notFnVars, notification_logs, now, brevoKey, brevoCalls>>

\* lines 89-92: user_profiles rows whose real_email is not null
adminUsers == { uid \in UserIds : user_profiles[uid] # None /\ user_profiles[uid] # Null }

\* the filter without its test for the synthetic domain
isRealEmail_anyDomain(email) ==
  /\ email # ""
  /\ Includes(email, "@")

\* lines 123-126: the filter's test of one real_email
isRealEmail(email) ==
  /\ email # ""
  /\ ~EndsWith(email, SyntheticDomain)
  /\ Includes(email, "@")

\* lines 120-127
realEmails == { user_profiles[uid] : uid \in { u \in adminUsers : isRealEmail(user_profiles[u]) } }

\* the handler goes on to insert a notification_logs row and then respond
ThenLog(i, status, emails, r) ==
  inv' = [inv EXCEPT ![i] = [@ EXCEPT !.pc = "log", !.logStatus = status,
                                      !.logEmails = emails, !.after = r]]

\* a failure row that lists the addresses the lookup returned
noRecipientEmails_asFound(users) == { user_profiles[uid] : uid \in users }

\* lines 108, 135: sent_to_emails: [] of the row logged without recipients
noRecipientEmails(users) == {}

\* lines 94-146: the recipient lookup answers
FnLookup(i, adminError) ==
  /\ inv[i].pc = "lookup"
  /\ IF adminError THEN Respond(i, inv[i], Response(500, "Failed to fetch admin users"))
     ELSE IF adminUsers = {}
       THEN ThenLog(i, "failed", noRecipientEmails(adminUsers),
                    Response(400, "No admin users with email configured"))
     ELSE IF realEmails = {}
       THEN ThenLog(i, "failed", noRecipientEmails(adminUsers),
                    Response(400, "No admin users with real email addresses configured"))
     ELSE inv' = [inv EXCEPT ![i] = [@ EXCEPT !.pc = "send", !.realEmails = realEmails]]
  /\ UNCHANGED <<notFnVars, notification_logs, now, brevoKey, brevoCalls>>

\* what the request to the email API comes to: it answers OK, it answers
\* not OK, fetch rejects, or reading the error body of a not-OK answer rejects
BrevoOutcomes == {"ok", "notok", "reject", "textreject"}

\* a handler that logs every answer of the email API as sent
brevoLogStatus_alwaysSent(ok) == "sent"

\* lines 198-227: the status of the row logged after the email API answered
brevoLogStatus(ok) == IF ok THEN "sent" ELSE "failed"

\* lines 184-218: the email API request, to realEmails.map(email => ({ email }))
FnSend(i, outcome) ==
  /\ inv[i].pc = "send"
  /\ brevoCalls' = brevoCalls \cup
       {[inv |-> i, consumable_id |-> inv[i].payload.consumable_id, day |-> now,
         to |-> inv[i].realEmails, outcome |-> outcome]}
  /\ CASE outcome = "ok" ->
            ThenLog(i, brevoLogStatus(TRUE), inv[i].realEmails,
                    Response(200, "Low stock notification sent"))
       [] outcome = "notok" ->
            ThenLog(i, brevoLogStatus(FALSE), inv[i].realEmails,
                    Response(500, "Brevo error"))
       [] OTHER -> Respond(i, inv[i], Response(500, "error.message"))
  /\ UNCHANGED <<notFnVars, notification_logs, now, brevoKey>>

\* lines 104-116, 131-145, 203-217, 221-236: the notification_logs insert is
\* applied (sent_at is the column's default, the time of the insert) and the
\* handler responds
FnLog(i) ==
  /\ inv[i].pc = "log"
  /\ notification_logs' = notification_logs \cup
       {[id |-> i, consumable_id |-> inv[i].payload.consumable_id,
         status |-> inv[i].logStatus, sent_to_emails |-> inv[i].logEmails,
         sent_at |-> now]}
  /\ Respond(i, [inv[i] EXCEPT !.logged = @ + 1], inv[i].after)
  /\ UNCHANGED <<notFnVars, now, brevoKey, brevoCalls>>

\* midnight passes
Tick ==
  /\ now < MaxDay
  /\ now' = now + 1
  /\ UNCHANGED <<notFnVars, notification_logs, brevoKey, inv, brevoCalls>>

----------------------------------------------------------------------------
(* Consumables of the client (src/src/App.jsx) *)

CallIds == 1..MaxCalls
\* ids of the consumables the table comes to hold
StoredIds == {"c1"}
OnHands == 0..MaxOnHand

\* a consumables_items row by id: absent (used: the id was given out before),
\* or present with its on_hand and min_level
NoRow == [present |-> FALSE, used |-> FALSE, on_hand |-> 0, min_level |-> 0]
Row(on_hand, min_level) ==
  [present |-> TRUE, used |-> TRUE, on_hand |-> on_hand, min_level |-> min_level]
DeletedRow == [present |-> FALSE, used |-> TRUE, on_hand |-> 0, min_level |-> 0]

\* an entry of the client's consumables list, by id
NoEntry == [present |-> FALSE, onHand |-> 0, minLevel |-> 0]

\* lines 427-438: the rows as loadConsumablesFromDb maps them
mapped(rows) ==
  [id \in DOMAIN rows |->
     IF rows[id].present
       THEN [present |-> TRUE, onHand |-> rows[id].on_hand, minLevel |-> rows[id].min_level]
       ELSE NoEntry]

\* lines 407-417: the rows the legacy migration inserts
insertRows(rows) ==
  [id \in StoredIds |->
     IF \E x \in legacy : x.id = id
       THEN LET x == CHOOSE x \in legacy : x.id = id IN Row(x.onHand, x.minLevel)
       ELSE rows[id]]

NoRequest ==
  [n |-> 0, handler |-> "", table |-> "", op |-> "", cols |-> {}, admin |-> FALSE]

\* the request that follows request prev (n tells two equal requests apart)
Request(prev, handler, table, op, cols, admin) ==
  [n |-> 1 - prev.n, handler |-> handler, table |-> table, op |-> op,
   cols |-> cols, admin |-> admin]

\* the columns of a whole consumables_items row
ConsumableCols ==
  {"id", "name", "category", "unit", "location", "on_hand", "min_level",
   "updated_by_name", "updated_by_username"}

\* loadConsumablesFromDb (lines 392-441), run by a caller whose closure holds
\* isAdmin = admin and who has sent request req last: the select answers
\* (error), the migration's insert answers (insertError), the nested load's
\* select answers (error2); thenToast is the toast the caller sets afterwards
loadConsumablesFromDb(admin, req, error, insertError, error2, thenToast) ==
  LET rows == consumables_items
      empty == \A id \in StoredIds : ~rows[id].present
      loadToast == IF thenToast # "" THEN thenToast ELSE "Consumables load error"
      doneToast == IF thenToast # "" THEN thenToast ELSE toast
  IN  IF error
        THEN /\ toast' = loadToast
             /\ lastRequest' = req
             /\ UNCHANGED <<consumables_items, consumables, legacy>>
      ELSE IF empty /\ legacy # {}
        THEN /\ lastRequest' = Request(req, "loadConsumablesFromDb", "consumables_items",
                                       "insert", ConsumableCols, admin)
             /\ IF insertError
                  THEN /\ consumables' = mapped(rows)
                       /\ toast' = doneToast
                       /\ UNCHANGED <<consumables_items, legacy>>
                  ELSE /\ consumables_items' = insertRows(rows)
                       /\ legacy' = {}
                       /\ IF error2
                            THEN toast' = loadToast /\ UNCHANGED consumables
                            ELSE toast' = doneToast /\ consumables' = mapped(insertRows(rows))
      ELSE /\ consumables' = mapped(rows)
           /\ toast' = doneToast
           /\ lastRequest' = req
           /\ UNCHANGED <<consumables_items, legacy>>

\* lines 281-286, 338-340: the load run by the effect on a user change and by
\* a realtime event on consumables_items
effectLoad(error, insertError, error2) ==
  /\ currentUser # ""
  /\ loadConsumablesFromDb(isAdmin, lastRequest, error, insertError, error2, "")
  /\ UNCHANGED <<session, currentUser, isAdmin, authIdentity, user_profiles, calls>>
  /\ UNCHANGED notConsVars

IdleCall ==
  [pc |-> "idle", id |-> "", delta |-> 0, currentOnHand |-> 0, minLevel |-> 0,
   nextOnHand |-> 0, isAdmin |-> FALSE, before |-> -1, updated |-> FALSE,
   sessionError |-> FALSE, invoked |-> FALSE, reloaded |-> FALSE]

\* the sum without Math.max(0, ...)
nextOnHandOf_noFloor(onHand, delta) == onHand + delta

\* line 847: Math.max(0, Number(current.onHand || 0) + delta)
nextOnHandOf(onHand, delta) == IF onHand + delta > 0 THEN onHand + delta ELSE 0

\* lines 844-859: the call reads the entry from the consumables of its
\* closure and sends the update; an id the list does not hold ends the call
adjustStart(k, id, delta) ==
  /\ currentUser # ""
  /\ calls[k].pc = "idle"
  /\ \A j \in CallIds : j < k => calls[j].pc # "idle"
  /\ delta > 0 => consumables[id].onHand < MaxOnHand
  /\ LET current == consumables[id]
     IN  IF ~current.present
           THEN /\ calls' = [calls EXCEPT ![k] = [IdleCall EXCEPT !.pc = "done", !.id = id,
                                                                  !.delta = delta]]
                /\ UNCHANGED lastRequest
           ELSE /\ calls' = [calls EXCEPT ![k] =
                     [IdleCall EXCEPT !.pc = "update", !.id = id, !.delta = delta,
                                      !.currentOnHand = current.onHand,
                                      !.minLevel = current.minLevel,
                                      !.nextOnHand = nextOnHandOf(current.onHand, delta),
                                      !.isAdmin = isAdmin]]
                /\ lastRequest' = Request(lastRequest, "adjustConsumable", "consumables_items",
                                          "update",
                                          {"on_hand", "updated_at", "updated_by_name",
                                           "updated_by_username"},
                                          isAdmin)
  /\ UNCHANGED <<authVars, user_profiles, consumables_items, consumables, legacy>>
  /\ UNCHANGED notConsVars

\* line 876 with the test as the notification fires on reaching below the minimum only
shouldNotify_strictlyBelow(currentOnHand, nextOnHand, minLevel, admin) ==
  currentOnHand > minLevel /\ nextOnHand < minLevel /\ admin

\* lines 866-867, 876: wasAboveMin && isNowBelowMin && isAdmin
shouldNotify(currentOnHand, nextOnHand, minLevel, admin) ==
  LET wasAboveMin == currentOnHand > minLevel
      isNowBelowMin == nextOnHand <= minLevel
  IN  wasAboveMin /\ isNowBelowMin /\ admin

\* a call that goes on after an update error as after a success
afterUpdate_ignoresError(error, c) ==
  IF shouldNotify(c.currentOnHand, c.nextOnHand, c.minLevel, c.isAdmin)
    THEN "getSession" ELSE "reload"

\* lines 860-876: where the call goes once the update has answered: it
\* returns on an error, else it decides on the notification
afterUpdate(error, c) ==
  IF error THEN "done"
  ELSE IF shouldNotify(c.currentOnHand, c.nextOnHand, c.minLevel, c.isAdmin)
    THEN "getSession" ELSE "reload"

\* lines 868-874: the toast after a successful update
adjustToast(c) ==
  LET wasAboveMin == c.currentOnHand > c.minLevel
      isNowBelowMin == c.nextOnHand <= c.minLevel
  IN  IF c.delta < 0 /\ ~c.isAdmin THEN "No email trigger: you are not admin."
      ELSE IF c.delta < 0 /\ ~wasAboveMin
        THEN "No email trigger: item was already at/below min level."
      ELSE IF c.delta < 0 /\ wasAboveMin /\ ~isNowBelowMin
        THEN "No email trigger: stock is still above min"
      ELSE toast

\* lines 851-876: the update answers; without an error the row with this id
\* (if there is one) has the new on_hand, and the call decides on the
\* notification.  before is the on_hand the update replaced (-1: no row)
adjustUpdate(k, error) ==
  /\ calls[k].pc = "update"
  /\ LET c == calls[k]
         row == consumables_items[c.id]
     IN  IF error
           THEN /\ calls' = [calls EXCEPT ![k].pc = afterUpdate(error, c)]
                /\ toast' = "Consumable update error"
                /\ UNCHANGED consumables_items
           ELSE /\ consumables_items' =
                     IF row.present
                       THEN [consumables_items EXCEPT ![c.id].on_hand = c.nextOnHand]
                       ELSE consumables_items
                /\ calls' = [calls EXCEPT ![k] =
                     [c EXCEPT !.updated = TRUE,
                               !.before = IF row.present THEN row.on_hand ELSE -1,
                               !.pc = afterUpdate(error, c)]]
                /\ toast' = adjustToast(c)
  /\ UNCHANGED <<session, currentUser, isAdmin, authIdentity, user_profiles,
                 consumables, legacy, lastRequest>>
  /\ UNCHANGED notConsVars

\* lines 878-883: supabase.auth.getSession(); without an access token the call
\* returns
adjustGetSession(k) ==
  /\ calls[k].pc = "getSession"
  /\ IF session = None
       THEN /\ calls' = [calls EXCEPT ![k] = [@ EXCEPT !.pc = "done", !.sessionError = TRUE]]
            /\ toast' = "Low-stock email failed: session expired. Please log in again."
       ELSE /\ calls' = [calls EXCEPT ![k].pc = "invoke"]
            /\ UNCHANGED toast
  /\ UNCHANGED <<session, currentUser, isAdmin, authIdentity, user_profiles,
                 consumables_items, consumables, legacy, lastRequest>>
  /\ UNCHANGED notConsVars

\* what supabase.functions.invoke comes to: data, an error, or it throws
InvokeOutcomes == {"data", "error", "throw"}

\* lines 885-934: notify-low-stock is invoked with the payload of the call
adjustInvoke(k, outcome) ==
  /\ calls[k].pc = "invoke"
  /\ calls' = [calls EXCEPT ![k] = [@ EXCEPT !.pc = "reload", !.invoked = TRUE]]
  /\ toast' = CASE outcome = "data" -> "notifyData.message"
                [] outcome = "error" -> "Low-stock email failed"
                [] OTHER -> "Low-stock email trigger failed. Check Edge Function logs."
  /\ UNCHANGED <<session, currentUser, isAdmin, authIdentity, user_profiles,
                 consumables_items, consumables, legacy, lastRequest>>
  /\ UNCHANGED notConsVars

\* line 936: await loadConsumablesFromDb()
adjustReload(k, error, insertError, error2) ==
  /\ calls[k].pc = "reload"
  /\ loadConsumablesFromDb(calls[k].isAdmin, lastRequest, error, insertError, error2, "")
  /\ calls' = [calls EXCEPT ![k] = [@ EXCEPT !.pc = "done", !.reloaded = TRUE]]
  /\ UNCHANGED <<session, currentUser, isAdmin, authIdentity, user_profiles>>
  /\ UNCHANGED notConsVars

\* addConsumable without its test of isAdmin
mayAddConsumable_anyone(admin) == TRUE

\* lines 809-812: only an admin gets past the guard of addConsumable
mayAddConsumable(admin) == admin

\* lines 940-943: only an admin gets past the guard of removeConsumable
mayRemoveConsumable(admin) == admin

\* lines 807-842: addConsumable with the form's name, on-hand and minimum; id
\* is the fresh genUuid(); the insert answers (error) and the list is loaded
addConsumable(name, id, onHand, minLevel, error, loadError) ==
  /\ currentUser # ""
  /\ ~consumables_items[id].used
  /\ \A x \in legacy : x.id # id
  /\ IF ~mayAddConsumable(isAdmin)
       THEN /\ toast' = "You don't have priviledge, please contact admin"
            /\ UNCHANGED <<consumables_items, consumables, legacy, lastRequest>>
     ELSE IF name = ""
       THEN UNCHANGED <<toast, consumables_items, consumables, legacy, lastRequest>>
     ELSE LET req == Request(lastRequest, "addConsumable", "consumables_items", "insert",
                             ConsumableCols, isAdmin)
          IN  IF error
                THEN /\ toast' = "Consumable add error"
                     /\ lastRequest' = req
                     /\ UNCHANGED <<consumables_items, consumables, legacy>>
                ELSE /\ consumables_items' =
                          [consumables_items EXCEPT ![id] = Row(onHand, minLevel)]
                     /\ consumables' =
                          IF loadError THEN consumables
                          ELSE mapped([consumables_items EXCEPT ![id] = Row(onHand, minLevel)])
                     /\ toast' = "Consumable added"
                     /\ lastRequest' = req
                     /\ UNCHANGED legacy
  /\ UNCHANGED <<session, currentUser, isAdmin, authIdentity, user_profiles, calls>>
  /\ UNCHANGED notConsVars

\* lines 939-951: removeConsumable; the delete answers (error) and the list
\* is loaded, which migrates the legacy list when no row is left
removeConsumable(id, error, loadError, insertError, error2) ==
  /\ currentUser # ""
  /\ IF ~mayRemoveConsumable(isAdmin)
       THEN /\ toast' = "You don't have priviledge, please contact admin"
            /\ UNCHANGED <<consumables_items, consumables, legacy, lastRequest>>
     ELSE LET req == Request(lastRequest, "removeConsumable", "consumables_items", "delete",
                             {}, isAdmin)
              rows == IF consumables_items[id].present
                        THEN [consumables_items EXCEPT ![id] = DeletedRow]
                        ELSE consumables_items
              empty == \A i \in StoredIds : ~rows[i].present
          IN  IF error
                THEN /\ toast' = "Consumable delete error"
                     /\ lastRequest' = req
                     /\ UNCHANGED <<consumables_items, consumables, legacy>>
              ELSE IF loadError
                THEN /\ consumables_items' = rows
                     /\ toast' = "Consumable removed"
                     /\ lastRequest' = req
                     /\ UNCHANGED <<consumables, legacy>>
              ELSE IF empty /\ legacy # {}
                THEN /\ lastRequest' = Request(req, "loadConsumablesFromDb",
                                               "consumables_items", "insert",
                                               ConsumableCols, isAdmin)
                     /\ toast' = "Consumable removed"
                     /\ IF insertError
                          THEN /\ consumables_items' = rows
                               /\ consumables' = mapped(rows)
                               /\ UNCHANGED legacy
                          ELSE /\ consumables_items' = insertRows(rows)
                               /\ legacy' = {}
                               /\ consumables' =
                                    IF error2 THEN consumables ELSE mapped(insertRows(rows))
              ELSE /\ consumables_items' = rows
                   /\ consumables' = mapped(rows)
                   /\ toast' = "Consumable removed"
                   /\ lastRequest' = req
                   /\ UNCHANGED legacy
  /\ UNCHANGED <<session, currentUser, isAdmin, authIdentity, user_profiles, calls>>
  /\ UNCHANGED notConsVars

----------------------------------------------------------------------------
(* loadConsumablesFromDb step by step (src/src/App.jsx 392-441) *)

\* the ids genUuid() hands out to legacy entries without one, in order
UuidIds == <<"g1", "g2">>
\* the ids of consumables_items where the migration is followed
MigrationIds == StoredIds \cup {UuidIds[n] : n \in 1..Len(UuidIds)}

\* genUuid() has returned this id before
uuidTaken(id) ==
  \/ consumables_items[id].used
  \/ \E l \in LoadIds : \E r \in loads[l].rows : r.id = id

\* genUuid(): the first id not returned before
genUuid == UuidIds[CHOOSE n \in 1..Len(UuidIds) :
                     ~uuidTaken(UuidIds[n]) /\ \A m \in 1..(n - 1) : uuidTaken(UuidIds[m])]

\* lines 407-417: legacy.map(...), the id being x.id || genUuid()
legacyInsertRows ==
  { [id |-> IF x.id # "" THEN x.id ELSE genUuid, row |-> Row(x.onHand, x.minLevel)] :
      x \in legacy }

\* what the steps of a load leave alone besides the lists
loadFrame ==
  UNCHANGED <<session, currentUser, isAdmin, authIdentity, user_profiles, fnVars, calls,
              itemVars, fbVars, probe, activePage, globalSearch, view, listed>>

\* lines 284, 339: loadConsumablesFromDb is called, by the effect on a user
\* change or by a realtime event; its select is sent
loadStart(l) ==
  /\ currentUser # ""
  /\ loads[l].pc = "idle"
  /\ \A j \in LoadIds : j < l => loads[j].pc # "idle"
  /\ loads' = [loads EXCEPT ![l].pc = "select"]
  /\ UNCHANGED <<toast, consumables_items, consumables, legacy, lastRequest>>
  /\ loadFrame

\* the select answered no row and the legacy list holds entries
migrates(rows, entries) == (\A id \in DOMAIN rows : ~rows[id].present) /\ entries # {}

\* lines 393-418, 427-441: the select answers (error); with no row and a
\* legacy list the insert is sent, otherwise the rows are mapped and set
loadSelect(l, error) ==
  /\ loads[l].pc = "select"
  /\ IF error
       THEN /\ toast' = "Consumables load error"
            /\ loads' = [loads EXCEPT ![l].pc = "done"]
            /\ UNCHANGED <<consumables, lastRequest>>
     ELSE IF migrates(consumables_items, legacy)
       THEN /\ loads' = [loads EXCEPT ![l] = [@ EXCEPT !.pc = "insert",
                                                        !.rows = legacyInsertRows]]
            /\ lastRequest' = Request(lastRequest, "loadConsumablesFromDb",
                                      "consumables_items", "insert", ConsumableCols, isAdmin)
            /\ UNCHANGED <<toast, consumables>>
     ELSE /\ consumables' = mapped(consumables_items)
          /\ loads' = [loads EXCEPT ![l].pc = "done"]
          /\ UNCHANGED <<toast, lastRequest>>
  /\ UNCHANGED <<consumables_items, legacy>>
  /\ loadFrame

\* lines 418-424: the insert answers (insertError; an insert of an id the
\* table holds fails); on success the legacy key is removed and the nested
\* load sends its select, on an error the rows of the select, none, are set
loadInsert(l, insertError) ==
  /\ loads[l].pc = "insert"
  /\ (\E r \in loads[l].rows : consumables_items[r.id].present) => insertError
  /\ IF insertError
       THEN /\ consumables' = [id \in DOMAIN consumables |-> NoEntry]
            /\ loads' = [loads EXCEPT ![l] = [@ EXCEPT !.pc = "done", !.rows = {}]]
            /\ UNCHANGED <<consumables_items, legacy>>
       ELSE /\ consumables_items' =
                 [id \in DOMAIN consumables_items |->
                    IF \E r \in loads[l].rows : r.id = id
                      THEN (CHOOSE r \in loads[l].rows : r.id = id).row
                      ELSE consumables_items[id]]
            /\ legacy' = {}
            /\ loads' = [loads EXCEPT ![l] =
                           [@ EXCEPT !.pc = "select", !.rows = {},
                                     !.migrations = @ + 1, !.nested = @ + 1]]
            /\ UNCHANGED consumables
  /\ UNCHANGED <<toast, lastRequest>>
  /\ loadFrame

\* lines 942-951 in another client: an admin there removes the row
rowRemovedElsewhere(id) ==
  /\ id \in DOMAIN consumables_items
  /\ consumables_items[id].present
  /\ consumables_items' = [consumables_items EXCEPT ![id] = DeletedRow]
  /\ UNCHANGED <<toast, consumables, legacy, lastRequest, loads>>
  /\ loadFrame
----------------------------------------------------------------------------
(* Equipment of the client (src/src/App.jsx) *)

ItemCallIds == 1..MaxItemCalls
ItemIds == {"i1", "i2"}
\* the ids in the order genUuid() hands them out, which is the order of
\* created_at of their rows
CreationOrder == <<"i1", "i2">>
\* the ids a caller may pass: those of rows, and one of a local placeholder
PartialIds == ItemIds \cup {"tmp_1"}
ItemNames == {" saw "}

\* an inventory_items row by id
NoItemRow ==
  [present |-> FALSE, used |-> FALSE, item_name |-> "", checked |-> FALSE, updated_by |-> None]
DeletedItemRow == [NoItemRow EXCEPT !.used = TRUE]

\* an entry of the client's items list
Item(id, name, checked) == [id |-> id, name |-> name, checked |-> checked]

\* the rows in the order of the select: created_at descending
RECURSIVE newestFirst(_, _)
newestFirst(rows, n) ==
  IF n = 0 THEN <<>>
  ELSE (IF rows[CreationOrder[n]].present THEN <<CreationOrder[n]>> ELSE <<>>)
         \o newestFirst(rows, n - 1)

\* mapDbItem over the rows
mapDbItem(rows) ==
  LET ids == newestFirst(rows, Len(CreationOrder))
  IN  [n \in 1..Len(ids) |-> Item(ids[n], rows[ids[n]].item_name, rows[ids[n]].checked)]

\* the test of the keys as "checked" in partial alone
isCheckedOnlyUpdate_hasChecked(keys) == "checked" \in keys

\* lines 559-561: "checked" in partial and every key is id or checked
isCheckedOnlyUpdate(keys) ==
  "checked" \in keys /\ \A k \in keys : k = "id" \/ k = "checked"

\* upsertItem's test that lets any user past with any keys
mayUpsert_anyone(admin, keys) == TRUE

\* line 562: who gets past the guard of upsertItem
mayUpsert(admin, keys) == admin \/ isCheckedOnlyUpdate(keys)

\* lines 602-605: who gets past the guard of addItem
mayAddItem(admin) == admin

\* lines 701-704: who gets past the guard of removeItem
mayRemoveItem(admin) == admin

\* lines 579-585: the columns of the patch upsertItem builds from the keys
patchCols(keys) ==
  (IF "name" \in keys THEN {"item_name"} ELSE {})
    \cup (IF "tag" \in keys THEN {"tag"} ELSE {})
    \cup (IF "location" \in keys THEN {"location"} ELSE {})
    \cup (IF "qty" \in keys THEN {"qty"} ELSE {})
    \cup (IF "note" \in keys THEN {"notes"} ELSE {})
    \cup (IF "checked" \in keys THEN {"checked"} ELSE {})
    \cup {"updated_by"}

\* the key sets upsertItem is called with
PartialKeys ==
  {{"id"}, {"id", "checked"}, {"id", "name"}, {"id", "checked", "note"},
   {"id", "tag", "location", "qty"}}

IdleItemCall ==
  [pc |-> "idle", fn |-> "", id |-> "", keys |-> {}, name |-> "", checked |-> FALSE,
   isAdmin |-> FALSE, user |-> None, sent |-> FALSE]

FreeItemCall(k) ==
  /\ itemCalls[k].pc = "idle"
  /\ \A j \in ItemCallIds : j < k => itemCalls[j].pc # "idle"

EndItemCall(k) == itemCalls' = [itemCalls EXCEPT ![k].pc = "done"]

\* loadInventoryFromDb (lines 363-390) over the rows, after the caller set
\* toast t: the select answers (error)
loadInventoryFromDb(rows, t, error) ==
  IF error
    THEN toast' = "Load error" /\ UNCHANGED items
    ELSE toast' = t /\ items' = mapDbItem(rows)

\* lines 281-286, 342-347: the load run by the effect on a user change and
\* by a realtime event on inventory_items
effectLoadInventory(error) ==
  /\ currentUser # ""
  /\ loadInventoryFromDb(inventory_items, toast, error)
  /\ UNCHANGED <<session, currentUser, isAdmin, authIdentity, user_profiles,
                 inventory_items, isAdding, itemCalls, lastRequest>>
  /\ UNCHANGED notItemVars

\* a test that takes no id for a placeholder
isPlaceholderId_never(id) == FALSE

\* line 567: typeof id === "string" && id.startsWith("tmp_")
isPlaceholderId(id) == StartsWith(id, "tmp_")

\* lines 558-572: upsertItem(partial) up to its first await
upsertItemStart(k, keys, id, name, checked, loadError) ==
  /\ currentUser # ""
  /\ FreeItemCall(k)
  /\ LET c == [IdleItemCall EXCEPT !.fn = "upsertItem", !.id = id, !.keys = keys,
                                   !.name = IF "name" \in keys THEN name ELSE "",
                                   !.checked = "checked" \in keys /\ checked,
                                   !.isAdmin = isAdmin]
     IN  IF ~mayUpsert(isAdmin, keys)
           THEN /\ toast' = "Only admin can edit item details."
                /\ itemCalls' = [itemCalls EXCEPT ![k] = [c EXCEPT !.pc = "done"]]
                /\ UNCHANGED items
         ELSE IF isPlaceholderId(id)
           THEN /\ loadInventoryFromDb(inventory_items, "Syncing item, please try again.",
                                       loadError)
                /\ itemCalls' = [itemCalls EXCEPT ![k] = [c EXCEPT !.pc = "done"]]
         ELSE /\ itemCalls' = [itemCalls EXCEPT ![k] = [c EXCEPT !.pc = "getUser"]]
              /\ UNCHANGED <<toast, items>>
  /\ UNCHANGED <<session, currentUser, isAdmin, authIdentity, user_profiles,
                 inventory_items, isAdding, lastRequest>>
  /\ UNCHANGED notItemVars

\* lines 573-587: getUser answers; with a user the patch is built and sent
upsertItemGetUser(k) ==
  /\ itemCalls[k].pc = "getUser"
  /\ itemCalls[k].fn = "upsertItem"
  /\ IF session = None
       THEN /\ toast' = "Session expired. Please log in again."
            /\ EndItemCall(k)
            /\ UNCHANGED lastRequest
       ELSE /\ itemCalls' = [itemCalls EXCEPT ![k] =
                               [@ EXCEPT !.pc = "update", !.user = session, !.sent = TRUE]]
            /\ lastRequest' = Request(lastRequest, "upsertItem", "inventory_items", "update",
                                      patchCols(itemCalls[k].keys), itemCalls[k].isAdmin)
            /\ UNCHANGED toast
  /\ UNCHANGED <<session, currentUser, isAdmin, authIdentity, user_profiles,
                 inventory_items, items, isAdding>>
  /\ UNCHANGED notItemVars

\* an update that writes every column of the row, given in partial or not
patched_allColumns(row, c) ==
  [row EXCEPT !.item_name = trim(c.name), !.checked = c.checked, !.updated_by = c.user]

\* lines 579-587: the row after the patch of call c
patched(row, c) ==
  [row EXCEPT !.item_name = IF "name" \in c.keys THEN trim(c.name) ELSE @,
              !.checked = IF "checked" \in c.keys THEN c.checked ELSE @,
              !.updated_by = c.user]

\* lines 587-595: the update answers
upsertItemUpdate(k, error, loadError) ==
  /\ itemCalls[k].pc = "update"
  /\ itemCalls[k].fn = "upsertItem"
  /\ LET c == itemCalls[k]
         rows == IF inventory_items[c.id].present
                   THEN [inventory_items EXCEPT ![c.id] = patched(@, c)]
                   ELSE inventory_items
     IN  IF error
           THEN /\ toast' = "Update error"
                /\ UNCHANGED <<inventory_items, items>>
           ELSE /\ inventory_items' = rows
                /\ loadInventoryFromDb(rows, "Saved", loadError)
  /\ EndItemCall(k)
  /\ UNCHANGED <<session, currentUser, isAdmin, authIdentity, user_profiles,
                 isAdding, lastRequest>>
  /\ UNCHANGED notItemVars

\* line 715: setAllChecked(checkedValue) starts with getUser
setAllCheckedStart(k, checkedValue) ==
  /\ currentUser # ""
  /\ FreeItemCall(k)
  /\ itemCalls' = [itemCalls EXCEPT ![k] =
       [IdleItemCall EXCEPT !.pc = "getUser", !.fn = "setAllChecked",
                            !.checked = checkedValue, !.isAdmin = isAdmin]]
  /\ UNCHANGED <<authVars, user_profiles, inventory_items, items, isAdding, lastRequest>>
  /\ UNCHANGED notItemVars

\* lines 716-725: getUser answers; with a user the bulk update is sent
setAllCheckedGetUser(k) ==
  /\ itemCalls[k].pc = "getUser"
  /\ itemCalls[k].fn = "setAllChecked"
  /\ IF session = None
       THEN /\ toast' = "Session expired. Please log in again."
            /\ EndItemCall(k)
            /\ UNCHANGED lastRequest
       ELSE /\ itemCalls' = [itemCalls EXCEPT ![k] =
                               [@ EXCEPT !.pc = "update", !.user = session, !.sent = TRUE]]
            /\ lastRequest' = Request(lastRequest, "setAllChecked", "inventory_items",
                                      "update", {"checked", "updated_by"},
                                      itemCalls[k].isAdmin)
            /\ UNCHANGED toast
  /\ UNCHANGED <<session, currentUser, isAdmin, authIdentity, user_profiles,
                 inventory_items, items, isAdding>>
  /\ UNCHANGED notItemVars

\* the frame of the steps of setAllChecked after getUser
setAllCheckedFrame ==
  /\ UNCHANGED <<session, currentUser, isAdmin, authIdentity, user_profiles,
                 isAdding, lastRequest>>
  /\ UNCHANGED notItemVars

\* lines 722-730: the bulk update answers (error), or touches no row because
\* a policy blocks it (blocked)
setAllCheckedUpdate(k, error, blocked) ==
  /\ itemCalls[k].pc = "update"
  /\ itemCalls[k].fn = "setAllChecked"
  /\ LET c == itemCalls[k]
     IN  IF error
           THEN /\ toast' = "Bulk update error"
                /\ EndItemCall(k)
                /\ UNCHANGED inventory_items
         ELSE /\ inventory_items' =
                   IF blocked THEN inventory_items
                   ELSE [id \in ItemIds |->
                           IF inventory_items[id].present
                             THEN [inventory_items[id] EXCEPT !.checked = c.checked,
                                                              !.updated_by = c.user]
                             ELSE inventory_items[id]]
              /\ itemCalls' = [itemCalls EXCEPT ![k].pc = "count"]
              /\ UNCHANGED toast
  /\ UNCHANGED items
  /\ setAllCheckedFrame

\* lines 747-756: setItems over the list, the toast, and the load started
setAllCheckedSetItems(k) ==
  /\ items' = [n \in 1..Len(items) |-> [items[n] EXCEPT !.checked = itemCalls[k].checked]]
  /\ toast' = IF itemCalls[k].checked THEN "All checked" ELSE "Reset"
  /\ itemCalls' = [itemCalls EXCEPT ![k].pc = "load"]

\* lines 733-736: the count of the rows answers (error: count is null)
setAllCheckedCount(k, error) ==
  /\ itemCalls[k].pc = "count"
  /\ LET count == IF error THEN 0
                  ELSE Cardinality({id \in ItemIds : inventory_items[id].present})
     IN  IF count > 0
           THEN /\ itemCalls' = [itemCalls EXCEPT ![k].pc = "changedCount"]
                /\ UNCHANGED <<toast, items>>
           ELSE setAllCheckedSetItems(k)
  /\ UNCHANGED inventory_items
  /\ setAllCheckedFrame

\* lines 737-745: the count of the rows with checked = checkedValue answers
\* (error: changedCount is null)
setAllCheckedChanged(k, error) ==
  /\ itemCalls[k].pc = "changedCount"
  /\ LET c == itemCalls[k]
         changedCount ==
           IF error THEN 0
           ELSE Cardinality({id \in ItemIds : inventory_items[id].present
                                              /\ inventory_items[id].checked = c.checked})
     IN  IF changedCount > 0
           THEN setAllCheckedSetItems(k)
           ELSE /\ toast' = "Policy blocks shared updates. Update RLS in Supabase."
                /\ EndItemCall(k)
                /\ UNCHANGED items
  /\ UNCHANGED inventory_items
  /\ setAllCheckedFrame

\* line 756: the load setAllChecked started answers
setAllCheckedLoad(k, loadError) ==
  /\ itemCalls[k].pc = "load"
  /\ itemCalls[k].fn = "setAllChecked"
  /\ loadInventoryFromDb(inventory_items, toast, loadError)
  /\ EndItemCall(k)
  /\ UNCHANGED inventory_items
  /\ setAllCheckedFrame

\* a guard that lets every submission through
addInFlight_never(adding) == FALSE

\* line 614: if (isAdding) return
addInFlight(adding) == adding

\* lines 600-616: addItem up to its first await
addItemStart(k, name) ==
  /\ currentUser # ""
  /\ FreeItemCall(k)
  /\ LET c == [IdleItemCall EXCEPT !.fn = "addItem", !.name = name, !.isAdmin = isAdmin]
     IN  IF ~mayAddItem(isAdmin)
           THEN /\ toast' = "Only admin can add items."
                /\ itemCalls' = [itemCalls EXCEPT ![k] = [c EXCEPT !.pc = "done"]]
                /\ UNCHANGED isAdding
         ELSE IF addInFlight(isAdding)
           THEN /\ itemCalls' = [itemCalls EXCEPT ![k] = [c EXCEPT !.pc = "done"]]
                /\ UNCHANGED <<toast, isAdding>>
         ELSE /\ itemCalls' = [itemCalls EXCEPT ![k] = [c EXCEPT !.pc = "getUser"]]
              /\ isAdding' = TRUE
              /\ UNCHANGED toast
  /\ UNCHANGED <<session, currentUser, isAdmin, authIdentity, user_profiles,
                 inventory_items, items, lastRequest>>
  /\ UNCHANGED notItemVars

\* genUuid() has returned this id before: a row was stored under it, or an
\* addItem call holds it
handedOut(id) ==
  \/ inventory_items[id].used
  \/ \E j \in ItemCallIds : itemCalls[j].fn = "addItem" /\ itemCalls[j].id = id

\* lines 617-669: getUser answers; with a user and a name the item is staged
\* in the list under the fresh id and the insert is sent
addItemGetUser(k, id) ==
  /\ itemCalls[k].pc = "getUser"
  /\ itemCalls[k].fn = "addItem"
  /\ ~handedOut(id)
  /\ \A n \in 1..Len(CreationOrder) :
       CreationOrder[n] = id => \A m \in 1..(n - 1) : handedOut(CreationOrder[m])
  /\ LET c == itemCalls[k]
         item_name == trim(c.name)
     IN  IF session = None
           THEN /\ toast' = "Session expired. Please log in again."
                /\ EndItemCall(k)
                /\ isAdding' = FALSE
                /\ UNCHANGED <<items, lastRequest>>
         ELSE IF item_name = ""
           THEN /\ EndItemCall(k)
                /\ isAdding' = FALSE
                /\ UNCHANGED <<toast, items, lastRequest>>
         ELSE /\ itemCalls' = [itemCalls EXCEPT ![k] =
                   [c EXCEPT !.pc = "insert", !.id = id, !.user = session, !.sent = TRUE]]
              /\ items' = <<Item(id, item_name, FALSE)>> \o items
              /\ lastRequest' = Request(lastRequest, "addItem", "inventory_items", "insert",
                                        {"id", "item_name", "tag", "location", "qty", "notes",
                                         "checked", "created_by", "updated_by"},
                                        c.isAdmin)
              /\ UNCHANGED <<toast, isAdding>>
  /\ UNCHANGED <<session, currentUser, isAdmin, authIdentity, user_profiles, inventory_items>>
  /\ UNCHANGED notItemVars

\* the rollback filtering nothing out
without_keepsAll(list, id) == list

\* line 673: prev.filter((x) => x.id !== itemId)
without(list, id) == SelectSeq(list, LAMBDA x : x.id # id)

\* lines 658-696: the insert answers
addItemInsert(k, error) ==
  /\ itemCalls[k].pc = "insert"
  /\ LET c == itemCalls[k]
     IN  IF error
           THEN /\ items' = without(items, c.id)
                /\ toast' = "Insert error"
                /\ UNCHANGED inventory_items
           ELSE /\ inventory_items' = [inventory_items EXCEPT ![c.id] =
                      [present |-> TRUE, used |-> TRUE, item_name |-> trim(c.name),
                       checked |-> FALSE, updated_by |-> c.user]]
                /\ toast' = "Added"
                /\ UNCHANGED items
  /\ isAdding' = FALSE
  /\ EndItemCall(k)
  /\ UNCHANGED <<session, currentUser, isAdmin, authIdentity, user_profiles, lastRequest>>
  /\ UNCHANGED notItemVars

\* lines 617-697: getUser or the insert rejects; catch sets the toast and
\* finally resets isAdding (stored: the insert had reached the table)
addItemThrows(k, stored) ==
  /\ itemCalls[k].fn = "addItem"
  /\ itemCalls[k].pc \in {"getUser", "insert"}
  /\ stored => itemCalls[k].pc = "insert"
  /\ LET c == itemCalls[k]
     IN  inventory_items' =
           IF stored
             THEN [inventory_items EXCEPT ![c.id] =
                     [present |-> TRUE, used |-> TRUE, item_name |-> trim(c.name),
                      checked |-> FALSE, updated_by |-> c.user]]
             ELSE inventory_items
  /\ toast' = "Unhandled add error"
  /\ isAdding' = FALSE
  /\ EndItemCall(k)
  /\ UNCHANGED <<session, currentUser, isAdmin, authIdentity, user_profiles, items,
                 lastRequest>>
  /\ UNCHANGED notItemVars

\* lines 700-712: removeItem(id); the delete answers (error), the list is loaded
removeItem(k, id, error, loadError) ==
  /\ currentUser # ""
  /\ FreeItemCall(k)
  /\ LET c == [IdleItemCall EXCEPT !.pc = "done", !.fn = "removeItem", !.id = id,
                                   !.isAdmin = isAdmin]
         rows == IF inventory_items[id].present
                   THEN [inventory_items EXCEPT ![id] = DeletedItemRow]
                   ELSE inventory_items
     IN  IF ~mayRemoveItem(isAdmin)
           THEN /\ toast' = "Only admin can delete items."
                /\ itemCalls' = [itemCalls EXCEPT ![k] = c]
                /\ UNCHANGED <<inventory_items, items, lastRequest>>
           ELSE /\ itemCalls' = [itemCalls EXCEPT ![k] = [c EXCEPT !.sent = TRUE]]
                /\ lastRequest' = Request(lastRequest, "removeItem", "inventory_items",
                                          "delete", {}, isAdmin)
                /\ IF error
                     THEN /\ toast' = "Delete error"
                          /\ UNCHANGED <<inventory_items, items>>
                     ELSE /\ inventory_items' = rows
                          /\ loadInventoryFromDb(rows, "Deleted", loadError)
  /\ UNCHANGED <<session, currentUser, isAdmin, authIdentity, user_profiles, isAdding>>
  /\ UNCHANGED notItemVars

----------------------------------------------------------------------------
(* Auth flow of the client (src/src/App.jsx) *)

\* upsertCurrentUserProfile(user, realEmail): the real_email it stores
profileRealEmail(user, realEmail) ==
  OrElse(realEmail, OrElse(user.real_email, OrElse(user.email, "")))

upsertCurrentUserProfile(user, realEmail) ==
  IF user.id = ""
    THEN UNCHANGED user_profiles
    ELSE user_profiles' = [user_profiles EXCEPT ![user.id] = profileRealEmail(user, realEmail)]

\* data.user.user_metadata.username || data.user.email.split("@")[0] || username
loginName(user, username) ==
  OrElse(user.username, OrElse(BeforeAt(user.email), username))

\* onLogin with usernameRaw typed; user is the data.user of the answer of
\* signInWithPassword, NoUser when the sign-in is refused; probe.loginEmail
\* is the address last handed to signInWithPassword
onLoginAs(user, usernameRaw) ==
  LET username == normalizeUsername(usernameRaw)
      email == usernameToAuthEmail(usernameRaw)
      u == loginName(user, username)
  IN  /\ session = None
      /\ currentUser = ""
      /\ IF username = "" \/ email = "" \/ user = NoUser
           THEN UNCHANGED <<authVars, user_profiles>>
           ELSE /\ session' = user.id
                /\ currentUser' = u
                /\ isAdmin' = isAdminIdentity(user, u)
                /\ authIdentity' = user.id
                /\ upsertCurrentUserProfile(user, user.real_email)
                /\ toast' = toast
      /\ probe' = IF username = "" \/ email = "" THEN probe
                  ELSE IF user = NoUser THEN [probe EXCEPT !.loginEmail = email]
                  ELSE [probe EXCEPT !.loginEmail = email, !.lastAuth = "login"]
      /\ UNCHANGED <<fnVars, consVars, itemVars, lastRequest, fbVars, pageVars>>

\* onLogin, for a sign-in the auth service accepts
onLogin(uid) == onLoginAs(Account(uid), Account(uid).username)

\* onLogout
onLogout ==
  /\ currentUser # ""
  /\ session' = None
  /\ currentUser' = ""
  /\ isAdmin' = FALSE
  /\ authIdentity' = ""
  /\ toast' = ""
  /\ items' = <<>>
  /\ consumables' = [id \in StoredIds |-> NoEntry]
  /\ feedbackRows' = {}
  /\ view' = [view EXCEPT !.query = "", !.filter = "all", !.sort = "recent"]
  /\ listed' = NoListed
  /\ probe' = [probe EXCEPT !.lastAuth = "logout"]
  /\ UNCHANGED <<user_profiles, fnVars, consumables_items, legacy, calls,
                 inventory_items, isAdding, itemCalls, lastRequest,
                 feedbackLoads, loads, activePage, globalSearch>>

\* the auth service drops the session (expiry) while the page stays open:
\* getUser and getSession then report no user until the next login
sessionExpires ==
  /\ session # None
  /\ session' = None
  /\ UNCHANGED <<currentUser, isAdmin, authIdentity, toast, user_profiles>>
  /\ UNCHANGED <<fnVars, consVars, itemVars, lastRequest, fbVars, probe, pageVars>>

\* the name the auth effect shows for the user of a session
sessionName(user) == OrElse(user.username, OrElse(BeforeAt(user.email), ""))

\* supabase.auth.getSession().then(...) of the auth effect, answering with
\* the session of user
restoreSession(user) ==
  /\ user # NoUser
  /\ session = user.id
  /\ currentUser' = sessionName(user)
  /\ isAdmin' = isAdminIdentity(user, sessionName(user))
  /\ authIdentity' = user.id
  /\ upsertCurrentUserProfile(user, user.real_email)
  /\ UNCHANGED <<session, toast>>
  /\ UNCHANGED <<fnVars, consVars, itemVars, lastRequest, fbVars, probe, pageVars>>

\* the onAuthStateChange callback, called with the session of user or
\* with no session (NoUser)
onAuthStateChange(user) ==
  /\ IF user = NoUser THEN session = None ELSE session = user.id
  /\ currentUser' = sessionName(user)
  /\ isAdmin' = isAdminIdentity(user, sessionName(user))
  /\ authIdentity' = user.id
  /\ upsertCurrentUserProfile(user, user.real_email)
  /\ UNCHANGED <<session, toast>>
  /\ UNCHANGED <<fnVars, consVars, itemVars, lastRequest, fbVars, probe, pageVars>>

\* onSignup with usernameRaw typed, the other fields of the form filled in:
\* the address it hands to signUp (None when it stops at the format toast)
onSignup(usernameRaw) ==
  LET username == normalizeUsername(usernameRaw)
      email == usernameToAuthEmail(usernameRaw)
  IN  /\ currentUser = ""
      /\ username # ""
      /\ probe' = [probe EXCEPT !.signupEmail = IF email = "" THEN None ELSE email]
      /\ UNCHANGED <<authVars, user_profiles, fnVars, consVars, itemVars,
                     lastRequest, fbVars, pageVars>>
----------------------------------------------------------------------------
(* Feedback list of the client (src/src/App.jsx) *)

\* the rows of feedback_entries: who sent each
FeedbackEntries ==
  { [id |-> "f1", sender_user_id |-> "u1", sender_username |-> "admin"],
    [id |-> "f2", sender_user_id |-> "u2", sender_username |-> "bob"],
    [id |-> "f3", sender_user_id |-> "u3", sender_username |-> "cara"] }

\* everything but the feedback list and its loads
notFbVars ==
  <<authVars, user_profiles, fnVars, consVars, itemVars, lastRequest, probe, pageVars>>

\* the query loadFeedbacksFromDb builds from the state of its render
feedbackQuery ==
  IF ~isAdmin /\ authIdentity # "" THEN [eq |-> "sender_user_id", value |-> authIdentity]
  ELSE IF ~isAdmin /\ currentUser # "" THEN [eq |-> "sender_username", value |-> currentUser]
  ELSE [eq |-> "", value |-> ""]

\* the rows a query selects
selected(q) ==
  { f \in FeedbackEntries :
      \/ q.eq = ""
      \/ q.eq = "sender_user_id" /\ f.sender_user_id = q.value
      \/ q.eq = "sender_username" /\ f.sender_username = q.value }

\* loadFeedbacksFromDb up to its await: the query is in flight
loadFeedbacksFromDb ==
  /\ feedbackLoads' = feedbackLoads \cup {feedbackQuery}
  /\ UNCHANGED feedbackRows

\* the effect on [isAdmin, authIdentity.id, currentUser], which also runs
\* when the page is mounted
effectLoadFeedbacks ==
  /\ loadFeedbacksFromDb
  /\ UNCHANGED notFbVars

\* the realtime callback for feedback_entries, subscribed while a user is shown
onFeedbackChange ==
  /\ currentUser # ""
  /\ loadFeedbacksFromDb
  /\ UNCHANGED notFbVars

\* loadFeedbacksFromDb after its await: the answer to query q arrives
feedbackResponse(q, error) ==
  /\ q \in feedbackLoads
  /\ feedbackLoads' = feedbackLoads \ {q}
  /\ feedbackRows' = IF error THEN feedbackRows ELSE selected(q)
  /\ UNCHANGED notFbVars
----------------------------------------------------------------------------
(* Pages and the global search (src/src/App.jsx 320-324, 497-556, 1160-1196) *)

\* line 527: slice(0, 8)
MaxResults == 8

\* an entry of items or of consumables as the search reads it
Listed(id, name, location) == [id |-> id, name |-> name, location |-> location]

\* lines 505-510, 516-521: the result pushed for an entry
result(x, page) ==
  [id |-> x.id, name |-> x.name, page |-> page,
   meta |-> IF x.location # "" THEN x.location ELSE "No location"]

\* lines 503-511, 513-522: the results of one list, in list order
RECURSIVE matches(_, _, _)
matches(list, q, page) ==
  IF list = <<>> THEN <<>>
  ELSE (IF Includes(toLowerCase(Head(list).name), q)
          THEN <<result(Head(list), page)>> ELSE <<>>)
       \o matches(Tail(list), q, page)

\* line 526 without the role: every result is kept
visibleTo_everyone(r, admin) == TRUE

\* line 526: r.page !== "equipment" || isAdmin
visibleTo(r, admin) == r.page # "equipment" \/ admin

\* line 526: results.filter(...)
RECURSIVE filterVisible(_, _)
filterVisible(results, admin) ==
  IF results = <<>> THEN <<>>
  ELSE (IF visibleTo(Head(results), admin) THEN <<Head(results)>> ELSE <<>>)
       \o filterVisible(Tail(results), admin)

\* line 527: slice(0, n)
slice(results, n) == SubSeq(results, 1, IF Len(results) < n THEN Len(results) ELSE n)

\* lines 497-528: globalSearchResults
globalSearchResults(search, itemList, consumableList, admin) ==
  LET q == toLowerCase(trim(search))
  IN IF q = "" THEN <<>>
     ELSE slice(filterVisible(matches(itemList, q, "equipment")
                                \o matches(consumableList, q, "consumables"), admin),
                MaxResults)

\* what the page handlers leave alone
pageFrame ==
  UNCHANGED <<session, currentUser, isAdmin, authIdentity, user_profiles, fnVars,
              consVars, itemVars, lastRequest, fbVars, probe, loads, listed>>

\* the search box: onChange sets globalSearch
onSearchChange(text) ==
  /\ currentUser # ""
  /\ globalSearch' = text
  /\ UNCHANGED <<toast, activePage, view>>
  /\ pageFrame

\* lines 1162, 1185, 1191: the Overview, Consumables and Feedback tabs
onTab(page) ==
  /\ currentUser # ""
  /\ activePage' = page
  /\ UNCHANGED <<toast, globalSearch, view>>
  /\ pageFrame

\* lines 1168-1174: the Equipment tab
onEquipmentTab ==
  /\ currentUser # ""
  /\ IF ~isAdmin
       THEN toast' = "Coming soon" /\ UNCHANGED activePage
       ELSE activePage' = "equipment" /\ UNCHANGED toast
  /\ UNCHANGED <<globalSearch, view>>
  /\ pageFrame

\* lines 538-556: jumpToSearchResult(result)
jumpToSearchResult(r) ==
  /\ currentUser # ""
  /\ IF r.page = "equipment"
       THEN IF ~isAdmin
              THEN /\ toast' = "You don't have priviledge, please contact admin"
                   /\ UNCHANGED <<activePage, globalSearch, view>>
              ELSE /\ activePage' = "equipment"
                   /\ view' = [view EXCEPT !.query = r.name, !.filter = "all",
                                           !.sort = "recent", !.equipmentJump = r.id]
                   /\ globalSearch' = ""
                   /\ UNCHANGED toast
       ELSE /\ activePage' = "consumables"
            /\ view' = [view EXCEPT !.consumableJump = r.id]
            /\ globalSearch' = ""
            /\ UNCHANGED toast
  /\ pageFrame

\* lines 320-324: the effect on [isAdmin, activePage]
effectPageGuard ==
  /\ ~isAdmin /\ activePage = "equipment"
  /\ activePage' = "consumables"
  /\ view' = [view EXCEPT !.guardReset = TRUE]
  /\ UNCHANGED <<toast, globalSearch>>
  /\ pageFrame

\* line 1257 for any role: the equipment view is rendered on its page
rendersEquipment_anyRole(page, admin) == page = "equipment"

\* line 1257: activePage === "equipment" && isAdmin
rendersEquipment(page, admin) == page = "equipment" /\ admin

\* the elements of a sequence
Range(s) == {s[n] : n \in 1..Len(s)}
----------------------------------------------------------------------------
(* The edge function with the logins that fill user_profiles *)

\* user_profiles may hold rows written before this version of the client:
\* the row of account u3 starts with any of these values, or is absent
StoredRealEmails == {Null, "", "cara"}

InitAuth ==
  /\ session = None
  /\ currentUser = ""
  /\ isAdmin = FALSE
  /\ authIdentity = ""
  /\ toast = ""
  /\ feedbackRows = {}
  /\ feedbackLoads = {}

\* no consumable, no adjustConsumable call
InitConsIdle ==
  /\ consumables_items = [id \in StoredIds |-> NoRow]
  /\ consumables = [id \in StoredIds |-> NoEntry]
  /\ legacy = {}
  /\ calls = [k \in CallIds |-> IdleCall]

\* no equipment item, no call on the equipment page
InitItemsIdle ==
  /\ inventory_items = [id \in ItemIds |-> NoItemRow]
  /\ items = <<>>
  /\ isAdding = FALSE
  /\ itemCalls = [k \in ItemCallIds |-> IdleItemCall]

\* the edge function not running
InitFnIdle ==
  /\ notification_logs = {}
  /\ now = 0
  /\ brevoKey = TRUE
  /\ inv = [i \in InvIds |-> IdleInv]
  /\ brevoCalls = {}

InitNotify ==
  /\ InitAuth
  /\ user_profiles \in
       { [uid \in UserIds |-> IF uid = "u3" THEN e ELSE IF uid = "u1" THEN a ELSE None] :
           e \in StoredRealEmails \cup {None},
           a \in {None, profileRealEmail(Account("u1"), "")} }
  /\ notification_logs = {}
  /\ now = 0
  /\ brevoKey \in BOOLEAN
  /\ inv = [i \in InvIds |-> IdleInv]
  /\ brevoCalls = {}
  /\ InitConsIdle
  /\ InitItemsIdle
  /\ lastRequest = NoRequest
  /\ probe = NoProbe
  /\ InitPage

NextNotify ==
  \/ \E uid \in UserIds : onLogin(uid)
  \/ \E i \in InvIds, m \in {"POST", "OPTIONS", "GET"}, b \in Payloads \cup {BadJson} :
       FnRequest(i, m, b)
  \/ \E i \in InvIds, e \in BOOLEAN : FnDupCheck(i, e)
  \/ \E i \in InvIds, e \in BOOLEAN : FnLookup(i, e)
  \/ \E i \in InvIds, o \in BrevoOutcomes : FnSend(i, o)
  \/ \E i \in InvIds : FnLog(i)
  \/ Tick

SpecNotify == InitNotify /\ [][NextNotify]_vars

----------------------------------------------------------------------------
(* The consumables page of one browser client *)

\* minimum levels of the stored consumable
MinLevels == {1}
\* the entries the legacy local list may hold
LegacyEntries == {[id |-> "c1", onHand |-> MaxOnHand, minLevel |-> 1]}

InitCons ==
  /\ InitAuth
  /\ user_profiles = [uid \in UserIds |-> profileRealEmail(Account(uid), "")]
  /\ InitFnIdle
  /\ InitItemsIdle
  /\ lastRequest = NoRequest
  /\ probe = NoProbe
  /\ InitPage
  /\ consumables_items \in
       { [id \in StoredIds |-> r] :
           r \in {NoRow} \cup {Row(h, m) : h \in OnHands, m \in MinLevels} }
  /\ consumables = [id \in StoredIds |-> NoEntry]
  /\ legacy \in {{}, LegacyEntries}
  /\ legacy # {} => \A id \in StoredIds : ~consumables_items[id].present
  /\ calls = [k \in CallIds |-> IdleCall]

\* the users of the consumables page
ConsUsers == {"u1", "u2"}

ConsStep ==
  \/ \E e, ie, e2 \in BOOLEAN : effectLoad(e, ie, e2)
  \/ \E k \in CallIds, id \in StoredIds, d \in {-1, 1} : adjustStart(k, id, d)
  \/ \E k \in CallIds, e \in BOOLEAN : adjustUpdate(k, e)
  \/ \E k \in CallIds : adjustGetSession(k)
  \/ \E k \in CallIds, o \in InvokeOutcomes : adjustInvoke(k, o)
  \/ \E k \in CallIds, e, ie, e2 \in BOOLEAN : adjustReload(k, e, ie, e2)
  \/ \E n \in {"", "gloves"}, id \in StoredIds, h \in {MaxOnHand}, m \in MinLevels,
        e, le \in BOOLEAN :
       addConsumable(n, id, h, m, e, le)
  \/ \E id \in StoredIds, e, le, ie, e2 \in BOOLEAN : removeConsumable(id, e, le, ie, e2)

NextCons ==
  \/ \E uid \in ConsUsers : onLogin(uid)
  \/ sessionExpires
  \/ ConsStep

SpecConsumables == InitCons /\ [][NextCons]_vars
----------------------------------------------------------------------------
(* The equipment page of one browser client *)

InitItems ==
  /\ InitAuth
  /\ user_profiles = [uid \in UserIds |-> profileRealEmail(Account(uid), "")]
  /\ InitFnIdle
  /\ InitConsIdle
  /\ lastRequest = NoRequest
  /\ probe = NoProbe
  /\ InitPage
  /\ inventory_items \in
       { [id \in ItemIds |-> IF id = "i1" THEN r ELSE NoItemRow] :
           r \in {NoItemRow} \cup
                 {[present |-> TRUE, used |-> TRUE, item_name |-> "drill", checked |-> c,
                   updated_by |-> "u1"] : c \in BOOLEAN} }
  /\ items = <<>>
  /\ isAdding = FALSE
  /\ itemCalls = [k \in ItemCallIds |-> IdleItemCall]

ItemStep ==
  \/ \E e \in BOOLEAN : effectLoadInventory(e)
  \/ \E k \in ItemCallIds, keys \in PartialKeys, id \in PartialIds, n \in ItemNames,
        c, le \in BOOLEAN :
       upsertItemStart(k, keys, id, n, c, le)
  \/ \E k \in ItemCallIds : upsertItemGetUser(k)
  \/ \E k \in ItemCallIds, e, le \in BOOLEAN : upsertItemUpdate(k, e, le)
  \/ \E k \in ItemCallIds, c \in BOOLEAN : setAllCheckedStart(k, c)
  \/ \E k \in ItemCallIds : setAllCheckedGetUser(k)
  \/ \E k \in ItemCallIds, e, b \in BOOLEAN : setAllCheckedUpdate(k, e, b)
  \/ \E k \in ItemCallIds, e \in BOOLEAN : setAllCheckedCount(k, e)
  \/ \E k \in ItemCallIds, e \in BOOLEAN : setAllCheckedChanged(k, e)
  \/ \E k \in ItemCallIds, le \in BOOLEAN : setAllCheckedLoad(k, le)
  \/ \E k \in ItemCallIds, n \in ItemNames \cup {" "} : addItemStart(k, n)
  \/ \E k \in ItemCallIds, id \in ItemIds : addItemGetUser(k, id)
  \/ \E k \in ItemCallIds, e \in BOOLEAN : addItemInsert(k, e)
  \/ \E k \in ItemCallIds, st \in BOOLEAN : addItemThrows(k, st)
  \/ \E k \in ItemCallIds, id \in ItemIds, e, le \in BOOLEAN : removeItem(k, id, e, le)

NextItems ==
  \/ \E uid \in ConsUsers : onLogin(uid)
  \/ sessionExpires
  \/ ItemStep

SpecInventory == InitItems /\ [][NextItems]_vars
----------------------------------------------------------------------------
(* The login and signup forms and the auth effect *)

\* the users the auth service may answer with
ProbeUsers ==
  { [id |-> "u1", email |-> e, username |-> n, role |-> r, real_email |-> ""] :
      e \in {"admin@vibe-user.example.com", "ADMIN@vibe-user.example.com",
              "bob@vibe-user.example.com", ""},
      n \in {"", " Admin", "bob"},
      r \in {"", "Admin", "user"} } \cup {NoUser}

\* what gets typed into the username field
RawUsernames == {"", "bob", " Bob ", "B o b", "bob!", "!", " Admin"}

InitIdentity ==
  /\ InitAuth
  /\ user_profiles = [uid \in UserIds |-> None]
  /\ InitFnIdle
  /\ InitConsIdle
  /\ InitItemsIdle
  /\ lastRequest = NoRequest
  /\ probe \in [user : ProbeUsers, raw : RawUsernames, signupRaw : RawUsernames,
                 signupEmail : {None}, loginEmail : {None}, lastAuth : {""}]
  /\ InitPage

NextIdentity ==
  \/ onSignup(probe.signupRaw)
  \/ onLoginAs(probe.user, probe.raw)
  \/ restoreSession(probe.user)
  \/ onAuthStateChange(IF session = None THEN NoUser ELSE probe.user)
  \/ sessionExpires
  \/ onLogout

SpecIdentity == InitIdentity /\ [][NextIdentity]_vars
----------------------------------------------------------------------------
(* The feedback list across logins *)

\* the page is opened with or without a session kept from an earlier visit
InitFeedback ==
  /\ session \in UserIds \cup {None}
  /\ currentUser = ""
  /\ isAdmin = FALSE
  /\ authIdentity = ""
  /\ toast = ""
  /\ feedbackRows = {}
  /\ feedbackLoads = {}
  /\ user_profiles = [uid \in UserIds |-> profileRealEmail(Account(uid), "")]
  /\ InitFnIdle
  /\ InitConsIdle
  /\ InitItemsIdle
  /\ lastRequest = NoRequest
  /\ probe = NoProbe
  /\ InitPage

\* the user of the session the auth service holds
sessionUser == IF session = None THEN NoUser ELSE Account(session)

NextFeedback ==
  \/ \E uid \in UserIds : onLogin(uid)
  \/ onLogout
  \/ sessionExpires
  \/ restoreSession(sessionUser)
  \/ onAuthStateChange(sessionUser)
  \/ effectLoadFeedbacks
  \/ onFeedbackChange
  \/ \E q \in feedbackLoads, error \in BOOLEAN : feedbackResponse(q, error)

SpecFeedback == InitFeedback /\ [][NextFeedback]_vars
----------------------------------------------------------------------------
(* The legacy migration with loads running side by side *)

\* the legacy local list: an entry saved with its id, one saved without
MigrationEntries ==
  { [id |-> "c1", onHand |-> MaxOnHand, minLevel |-> 1],
    [id |-> "", onHand |-> 1, minLevel |-> 1] }

InitMigration ==
  /\ InitAuth
  /\ user_profiles = [uid \in UserIds |-> profileRealEmail(Account(uid), "")]
  /\ InitFnIdle
  /\ InitItemsIdle
  /\ lastRequest = NoRequest
  /\ probe = NoProbe
  /\ InitPage
  /\ consumables_items \in
       { [id \in MigrationIds |-> IF id = "c1" THEN r ELSE NoRow] :
           r \in {NoRow, Row(2, 1)} }
  /\ consumables = [id \in MigrationIds |-> NoEntry]
  /\ legacy \in SUBSET MigrationEntries
  /\ calls = [k \in CallIds |-> IdleCall]

NextMigration ==
  \/ \E uid \in ConsUsers : onLogin(uid)
  \/ \E l \in LoadIds : loadStart(l)
  \/ \E l \in LoadIds, e \in BOOLEAN : loadSelect(l, e)
  \/ \E l \in LoadIds, e \in BOOLEAN : loadInsert(l, e)
  \/ \E id \in MigrationIds : rowRemovedElsewhere(id)

SpecMigration == InitMigration /\ [][NextMigration]_vars
----------------------------------------------------------------------------
(* The pages of one client across logins and role changes *)

\* the lists a load can set: a saw on the shelf, a roll of tape
PageLists ==
  { NoListed,
    [items |-> <<Listed("i1", "Saw", "Shelf")>>,
     consumables |-> <<Listed("c1", "Tape", "")>>] }

\* lines 387, 440: setItems(mapped) and setConsumables(mapped) of the loads
\* the effect on [currentUser] starts
listsLoaded(l) ==
  /\ currentUser # ""
  /\ listed' = l
  /\ UNCHANGED <<session, currentUser, isAdmin, authIdentity, toast, user_profiles, fnVars,
                 consVars, itemVars, lastRequest, fbVars, probe, loads, activePage,
                 globalSearch, view>>

PageQueries == {"", "a"}
PageUsers == {"u1", "u2"}

\* the results a search of the lists shows to some role
PageResults ==
  UNION { Range(globalSearchResults(q, l.items, l.consumables, admin)) :
            q \in PageQueries, l \in PageLists, admin \in BOOLEAN }

InitPages ==
  /\ session \in PageUsers \cup {None}
  /\ currentUser = ""
  /\ isAdmin = FALSE
  /\ authIdentity = ""
  /\ toast = ""
  /\ user_profiles = [uid \in UserIds |-> profileRealEmail(Account(uid), "")]
  /\ InitFnIdle
  /\ InitConsIdle
  /\ InitItemsIdle
  /\ feedbackRows = {}
  /\ feedbackLoads = {}
  /\ lastRequest = NoRequest
  /\ probe = NoProbe
  /\ InitPage

NextPages ==
  \/ \E uid \in PageUsers : onLogin(uid)
  \/ onLogout
  \/ sessionExpires
  \/ restoreSession(sessionUser)
  \/ onAuthStateChange(sessionUser)
  \/ \E l \in PageLists : listsLoaded(l)
  \/ \E text \in PageQueries : onSearchChange(text)
  \/ \E page \in {"overview", "consumables", "feedback"} : onTab(page)
  \/ onEquipmentTab
  \/ \E r \in PageResults : jumpToSearchResult(r)
  \/ effectPageGuard

SpecPages == InitPages /\ [][NextPages]_vars

\* React runs an effect after every render in which one of its dependencies
\* changed, so the guard at 320-324 does not stay pending
SpecPagesLive == SpecPages /\ WF_vars(effectPageGuard)
----------------------------------------------------------------------------
(* The global search over lists of several lengths *)

\* the equipment list the search is tried on is a prefix of this one
SearchItems ==
  << Listed("i1", "Saw", "Shelf"), Listed("i2", "Hand saw", ""),
     Listed("i3", "Drill", "Van"), Listed("i4", "Ladder", "Van"),
     Listed("i5", "Vacuum", "Shelf") >>

\* and the consumables list a prefix of this one
SearchConsumables ==
  << Listed("c1", "Tape", "Shelf"), Listed("c2", "Gaffer tape", ""),
     Listed("c3", "", "Van"), Listed("c4", "Batteries", "Van"),
     Listed("c5", "Paint", "Shelf"), Listed("c6", "Masks", "Shelf") >>

SearchLists ==
  { [items |-> SubSeq(SearchItems, 1, n), consumables |-> SubSeq(SearchConsumables, 1, m)] :
      n \in 0..Len(SearchItems), m \in 0..Len(SearchConsumables) }

SearchQueries == {"", " ", " A ", " SA ", "tape", "Van", "x"}

\* every result a search of these lists shows to some role
SearchResults ==
  UNION { Range(globalSearchResults(q, SearchItems, SearchConsumables, admin)) :
            q \in SearchQueries, admin \in BOOLEAN }

InitSearch ==
  /\ InitAuth
  /\ user_profiles = [uid \in UserIds |-> profileRealEmail(Account(uid), "")]
  /\ InitFnIdle
  /\ InitConsIdle
  /\ InitItemsIdle
  /\ lastRequest = NoRequest
  /\ probe = NoProbe
  /\ loads = [l \in LoadIds |-> IdleLoad]
  /\ activePage = "consumables"
  /\ globalSearch = ""
  /\ view = InitView
  /\ listed \in SearchLists

\* the results on the screen
shownResults == globalSearchResults(globalSearch, listed.items, listed.consumables, isAdmin)

NextSearch ==
  \/ \E uid \in PageUsers : onLogin(uid)
  \/ \E text \in SearchQueries : onSearchChange(text)
  \/ \E r \in SearchResults : r \in Range(shownResults) /\ jumpToSearchResult(r)

SpecSearch == InitSearch /\ [][NextSearch]_vars
----------------------------------------------------------------------------
(* The whole system *)

Init ==
  /\ InitAuth
  /\ user_profiles = [uid \in UserIds |-> None]
  /\ InitFnIdle
  /\ InitConsIdle
  /\ InitItemsIdle
  /\ lastRequest = NoRequest
  /\ probe = NoProbe
  /\ InitPage

Next ==
  \/ onLogout
  \/ NextNotify
  \/ NextCons
  \/ NextItems
  \/ NextIdentity
  \/ NextFeedback
  \/ NextMigration
  \/ NextPages
  \/ NextSearch

Spec == Init /\ [][Next]_vars
----------------------------------------------------------------------------
(* Claims about the edge function, checked under SpecNotify *)

AlreadySent == Response(200, "Notification already sent today for this item")

\* the requests to the email API that invocation i made
CallsOf(i) == { b \in brevoCalls : b.inv = i }

\* the notification_logs rows that invocation i inserted
RowsOf(i) == { r \in notification_logs : r.id = i }

\* C3: for every consumable and every calendar day, the email API is called
\* successfully at most once for that consumable on that day, over every
\* interleaving of invocations.
C3_OncePerDay ==
  \A c \in ConsumableIds, d \in Days :
    Cardinality({ b \in brevoCalls :
                    b.consumable_id = c /\ b.day = d /\ b.outcome = "ok" }) <= 1

\* notification_logs holds a row of status "sent" for the payload's consumable
\* with sent_at on or after the midnight the invocation computed
HasSentToday(i) ==
  \E r \in notification_logs :
    /\ r.consumable_id = inv[i].payload.consumable_id
    /\ r.status = "sent"
    /\ r.sent_at >= inv[i].midnight

\* invocation i has answered "already sent" without an email or a log row
SkippedAsDuplicate(i) ==
  /\ inv'[i].pc = "done"
  /\ inv'[i].response = AlreadySent
  /\ inv'[i].logged = 0
  /\ { b \in brevoCalls' : b.inv = i } = {}
  /\ { r \in notification_logs' : r.id = i } = {}

LoggedOnce(i, status, http) ==
  /\ inv[i].logged = 1
  /\ \E r \in RowsOf(i) : RowsOf(i) = {r} /\ r.status = status
  /\ inv[i].response.status = http

\* every "sent" row was written by an invocation whose email API call was OK
SentRowsWereSent ==
  \A r \in notification_logs :
    r.status = "sent" => \E b \in CallsOf(r.id) : b.outcome = "ok"

AddressesOf(uid) ==
  {Account(uid).email, Account(uid).real_email, user_profiles[uid]} \ {"", None, Null}

\* C6: every address a low-stock email goes to belongs to an admin, and no
\* address of a user who is not an admin is among the recipients.
C6_OnlyAdmins ==
  \A b \in brevoCalls : \A e \in b.to :
    /\ \E uid \in UserIds : IsAdminUser(uid) /\ e \in AddressesOf(uid)
    /\ \A uid \in UserIds : e \in AddressesOf(uid) => IsAdminUser(uid)

\* C7: no address passed to the email API ends with the synthetic domain or
\* lacks "@", whatever real_email values user_profiles holds.
C7_NoSyntheticRecipient ==
  \A b \in brevoCalls : \A e \in b.to :
    ~EndsWith(e, "@vibe-user.example.com") /\ Includes(e, "@")

\* an email went out to the addresses the filter keeps of a user_profiles
\* table that holds a synthetic login address
C7_Witness ==
  \E i \in InvIds :
    /\ inv[i].pc = "log"
    /\ inv[i].logStatus = "sent"
    /\ inv[i].realEmails = realEmails
    /\ \E uid \in adminUsers : user_profiles[uid] = Account(uid).email

----------------------------------------------------------------------------
(* Claims on the consumables page *)

\* call k has sent its update and the update has answered without an error
Updated(k) == calls[k].updated

\* the stored count went from above the minimum to at or below it by the
\* update of call k
StoredCrossing(k) ==
  calls[k].before > calls[k].minLevel /\ calls[k].nextOnHand <= calls[k].minLevel

\* the counts call k read from the client's list go from above the minimum
\* to at or below it
ReadCrossing(k) ==
  calls[k].currentOnHand > calls[k].minLevel /\ calls[k].nextOnHand <= calls[k].minLevel

\* call k is past the point where it decides on the notification and invokes
Decided(k) == calls[k].pc \in {"reload", "done"}

\* C1: adjustConsumable invokes notify-low-stock only when the on-hand count
\* stored for the consumable before the adjustment was strictly above the
\* minimum level and the count after it is at or below the minimum level
C1_OnlyOnCrossing ==
  \A k \in CallIds :
    calls[k].invoked /\ calls[k].before >= 0 => StoredCrossing(k)

C8_Claimed ==
  [][lastRequest' # lastRequest /\ lastRequest'.table = "consumables_items"
       => lastRequest'.admin]_vars

\* a step of addConsumable or of removeConsumable
AddOrRemoveConsumable ==
  \/ \E n \in {"", "gloves"}, id \in StoredIds, h \in OnHands, m \in {1, 2},
       e, le \in BOOLEAN :
       addConsumable(n, id, h, m, e, le)
  \/ \E id \in StoredIds, e, le, ie, e2 \in BOOLEAN : removeConsumable(id, e, le, ie, e2)

\* C8: addConsumable and removeConsumable performed while the logged-in user
\* is not an admin send no request and leave the stored consumables, the
\* client's list and the legacy list unchanged
C8_AddRemoveNeedAdmin ==
  [][~isAdmin /\ AddOrRemoveConsumable
       => UNCHANGED <<consumables_items, consumables, legacy, lastRequest>>]_vars

\* a user who is not an admin has been refused by addConsumable or
\* removeConsumable
C8_Witness ==
  /\ currentUser # ""
  /\ ~isAdmin
  /\ toast = "You don't have priviledge, please contact admin"

----------------------------------------------------------------------------
(* Claims on the equipment page *)

\* the toasts of the guards of upsertItem, addItem and removeItem
GuardToasts ==
  {"Only admin can edit item details.", "Only admin can add items.",
   "Only admin can delete items."}

\* a step that starts addItem, removeItem, or upsertItem with a key other
\* than id and checked
StartsGuardedCall ==
  \/ \E k \in ItemCallIds, n \in ItemNames \cup {" "} : addItemStart(k, n)
  \/ \E k \in ItemCallIds, id \in ItemIds, e, le \in BOOLEAN : removeItem(k, id, e, le)
  \/ \E k \in ItemCallIds, keys \in PartialKeys, id \in PartialIds, n \in ItemNames,
       c, le \in BOOLEAN :
       /\ keys \ {"id", "checked"} # {}
       /\ upsertItemStart(k, keys, id, n, c, le)

\* C9: when the logged-in user is not an admin, addItem, removeItem and
\* upsertItem with a key other than id and checked send no request to
\* inventory_items, leave the items list unchanged, set a toast and are over
C9_NonAdminRefused ==
  [][~isAdmin /\ StartsGuardedCall
       => /\ UNCHANGED <<lastRequest, items, inventory_items, isAdding>>
          /\ toast' \in GuardToasts
          /\ \A k \in ItemCallIds :
               itemCalls'[k] # itemCalls[k]
                 => itemCalls'[k].pc = "done" /\ ~itemCalls'[k].sent]_vars

\* a user who is not an admin has called upsertItem with a name and was refused
C9_Witness ==
  /\ ~isAdmin
  /\ toast = "Only admin can edit item details."
  /\ \E k \in ItemCallIds :
       /\ itemCalls[k].fn = "upsertItem"
       /\ "name" \in itemCalls[k].keys
       /\ ~itemCalls[k].isAdmin
       /\ itemCalls[k].pc = "done"

\* C10: every request a call of a user who is not an admin sends to
\* inventory_items is an update, by upsertItem or setAllChecked, of the
\* columns checked and updated_by only; no step of such a call adds or
\* deletes a row or changes an item_name
C10_NonAdminChecksOnly ==
  [][/\ lastRequest' # lastRequest /\ lastRequest'.table = "inventory_items"
          /\ ~lastRequest'.admin
       => /\ lastRequest'.op = "update"
          /\ lastRequest'.handler \in {"upsertItem", "setAllChecked"}
          /\ lastRequest'.cols = {"checked", "updated_by"}
     /\ \A k \in ItemCallIds :
          itemCalls'[k] # itemCalls[k] /\ ~itemCalls'[k].isAdmin
            => \A id \in ItemIds :
                 /\ inventory_items'[id].present = inventory_items[id].present
                 /\ inventory_items'[id].item_name = inventory_items[id].item_name]_vars

\* an update sent by a call of a user who is not an admin has been applied
C10_Witness ==
  /\ lastRequest.table = "inventory_items"
  /\ lastRequest.op = "update"
  /\ ~lastRequest.admin
  /\ \E id \in ItemIds :
       inventory_items[id].present /\ ~IsAdminUser(inventory_items[id].updated_by)

----------------------------------------------------------------------------
(* Claims on adjustConsumable *)

\* the calls that have been started
Started == { k \in CallIds : calls[k].pc # "idle" }

\* call k decremented a stored row, got no error and is over
CompletedDecrement(k) ==
  /\ calls[k].pc = "done"
  /\ calls[k].delta = -1
  /\ calls[k].updated
  /\ calls[k].before >= 0

\* the largest of the counts the updates of the started calls replaced: the
\* stored count before the first of them when all of them are decrements
InitialOnHand ==
  CHOOSE h \in {calls[k].before : k \in Started} :
    \A k \in Started : calls[k].before <= h

\* C15: when every call started so far is a decrement of consumable c1 that
\* has completed successfully, and nothing else wrote the row, the stored
\* on_hand is max(0, initial - n) for the n calls
C15_DecrementsAddUp ==
  (/\ Started # {}
   /\ \A k \in Started : CompletedDecrement(k) /\ calls[k].id = "c1"
   /\ consumables_items["c1"].present)
  => LET n == Cardinality(Started)
         expected == IF InitialOnHand - n > 0 THEN InitialOnHand - n ELSE 0
     IN  consumables_items["c1"].on_hand = expected

\* C16: every call that is over and whose update succeeded has run the
\* reload of the consumables list
C16_ReloadsAfterUpdate ==
  \A k \in CallIds :
    calls[k].pc = "done" /\ calls[k].updated => calls[k].reloaded

\* the stored counts are never negative
OnHandNotNegative ==
  \A id \in StoredIds : consumables_items[id].on_hand >= 0

\* a step in which a call sends its update carries on_hand = max(0, cached
\* count + delta); a step in which the update is applied stores that value
WritesFlooredSum ==
  \A k \in CallIds :
    /\ (calls[k].pc = "idle" /\ calls'[k].pc = "update")
         => LET sum == consumables[calls'[k].id].onHand + calls'[k].delta
            IN  /\ calls'[k].nextOnHand = (IF sum < 0 THEN 0 ELSE sum)
                /\ calls'[k].nextOnHand >= 0
                /\ (consumables[calls'[k].id].onHand = 0 /\ calls'[k].delta < 0
                      => calls'[k].nextOnHand = 0)
    /\ (calls[k].pc = "update" /\ calls'[k].updated
          /\ consumables_items[calls[k].id].present)
         => consumables_items'[calls[k].id].on_hand = calls[k].nextOnHand

\* C17: the on_hand adjustConsumable writes is max(0, cached on-hand + delta),
\* never negative, and 0 for a decrement at a cached count of 0
C17_FlooredAtZero == []OnHandNotNegative /\ [][WritesFlooredSum]_vars

\* a decrement read 0 from the list and its update of 0 was applied to the row
C17_Witness ==
  \E k \in CallIds :
    /\ calls[k].updated
    /\ calls[k].delta = -1
    /\ calls[k].currentOnHand = 0
    /\ calls[k].nextOnHand = 0
    /\ calls[k].before >= 0

\* a step of adjustConsumable for an id the client's list does not hold
AdjustUnknownId ==
  \E k \in CallIds, id \in StoredIds, d \in {-1, 1} :
    ~consumables[id].present /\ adjustStart(k, id, d)

\* C18: adjustConsumable for an id that is not in the client's list sends no
\* request and is over; when the update answers with an error the call is
\* over without invoking the notification function and the list is unchanged
C18_NoRequestNoInvoke ==
  [][/\ AdjustUnknownId
          => /\ UNCHANGED <<lastRequest, consumables_items, consumables>>
             /\ \A k \in CallIds : calls'[k].pc \in {"idle", "done"} \/ calls'[k] = calls[k]
     /\ \A k \in CallIds :
          adjustUpdate(k, TRUE)
            => /\ UNCHANGED <<consumables, consumables_items>>
               /\ calls'[k].pc = "done"
               /\ ~calls'[k].invoked
               /\ ~calls'[k].updated]_vars

\* the update of a call answered with an error and the call is over
C18_Witness ==
  \E k \in CallIds :
    /\ calls[k].pc = "done"
    /\ calls[k].minLevel > 0
    /\ ~calls[k].updated
    /\ ~calls[k].invoked
    /\ toast = "Consumable update error"

----------------------------------------------------------------------------
(* Claims about the answers of the edge function without an email *)

\* the answers of an invocation whose lookup found no usable address
NoRecipientAnswers ==
  {Response(400, "No admin users with email configured"),
   Response(400, "No admin users with real email addresses configured")}

\* invocation i is over and has inserted one row, of status "failed" with no
\* addresses, and has made no request to the email API
FailedWithoutRecipients(i) ==
  /\ inv[i].logged = 1
  /\ \E r \in RowsOf(i) : RowsOf(i) = {r} /\ r.status = "failed" /\ r.sent_to_emails = {}
  /\ CallsOf(i) = {}

\* the lookup of invocation i answers without an error and without a usable
\* address: the handler turns to log a failure and answer 400
LookupFindsNoRecipient ==
  \A i \in InvIds :
    FnLookup(i, FALSE) /\ realEmails = {}
      => /\ inv'[i].pc = "log"
         /\ inv'[i].logStatus = "failed"
         /\ inv'[i].logEmails = {}
         /\ inv'[i].after \in NoRecipientAnswers
         /\ UNCHANGED brevoCalls

\* C19: an invocation whose recipient lookup yields no usable address inserts
\* exactly one notification_logs row, with status "failed" and empty
\* sent_to_emails, makes no request to the email API and answers 400
C19_NoRecipients ==
  /\ [][LookupFindsNoRecipient]_vars
  /\ [](\A i \in InvIds :
          inv[i].pc = "done" /\ inv[i].response \in NoRecipientAnswers
            => FailedWithoutRecipients(i))

\* an invocation found profile rows but no usable address and has answered
C19_Witness ==
  \E i \in InvIds :
    /\ inv[i].pc = "done"
    /\ inv[i].response = Response(400, "No admin users with real email addresses configured")
    /\ adminUsers # {}
    /\ FailedWithoutRecipients(i)

\* the answers of an invocation rejected before its recipient lookup succeeded
EarlyAnswers ==
  {Response(200, "ok"), Response(405, "Method not allowed"),
   Response(500, "Missing BREVO_API_KEY in Edge Function secrets"),
   Response(400, "Missing required fields"),
   Response(500, "Failed to fetch admin users")}

\* a rejected request gets the answer of its check
RejectedAsStated ==
  \A i \in InvIds :
    /\ \A b \in Payloads \cup {BadJson} :
         /\ FnRequest(i, "OPTIONS", b) => inv'[i].response = Response(200, "ok")
         /\ FnRequest(i, "GET", b) => inv'[i].response.status = 405
         /\ FnRequest(i, "POST", b) /\ ~brevoKey => inv'[i].response.status = 500
         /\ FnRequest(i, "POST", b) /\ brevoKey /\ b # BadJson
              /\ (b.consumable_id = "" \/ b.name = "")
              => inv'[i].response.status = 400
    /\ FnLookup(i, TRUE) => inv'[i].response.status = 500
    /\ inv[i].pc \in {"idle", "lookup"} /\ inv'[i].pc = "done"
         => inv'[i].response \in EarlyAnswers \cup {Response(500, "error.message")}

\* C20: an invocation rejected before its recipient lookup succeeds (OPTIONS:
\* "ok", another method than POST: 405, no API key: 500, a payload without
\* consumable_id or name: 400, a lookup error: 500) has made no request to the
\* email API and inserted no notification_logs row
C20_RejectedLeavesNoTrace ==
  /\ [][RejectedAsStated]_vars
  /\ [](\A i \in InvIds :
          inv[i].pc = "done" /\ inv[i].response \in EarlyAnswers
            => inv[i].logged = 0 /\ RowsOf(i) = {} /\ CallsOf(i) = {})

\* one invocation was rejected for its payload and another for a lookup error
C20_Witness ==
  \E i, j \in InvIds :
    /\ inv[i].pc = "done"
    /\ inv[i].response = Response(400, "Missing required fields")
    /\ inv[j].pc = "done"
    /\ inv[j].response = Response(500, "Failed to fetch admin users")

----------------------------------------------------------------------------
(* Claims on addItem *)

\* the ids of the entries of a list
IdsOf(list) == { list[n].id : n \in 1..Len(list) }

\* the list without the entries of this id, written out position by position
RECURSIVE Others(_, _)
Others(list, id) ==
  IF list = <<>> THEN <<>>
  ELSE (IF Head(list).id = id THEN <<>> ELSE <<Head(list)>>) \o Others(Tail(list), id)

\* a step in which call k stages its item and sends the insert: the id is
\* in no entry and no row before, the entry is the head of the list
\* afterwards and the rest of the list is as it was
StagesAtHead(k) ==
  (itemCalls[k].pc = "getUser" /\ itemCalls'[k].pc = "insert")
    => LET id == itemCalls'[k].id
       IN  /\ id \notin IdsOf(items)
           /\ ~inventory_items[id].present
           /\ items' # <<>>
           /\ Head(items').id = id
           /\ Tail(items') = items
           /\ lastRequest' # lastRequest
           /\ lastRequest'.handler = "addItem"
           /\ lastRequest'.op = "insert"
           /\ UNCHANGED inventory_items

\* a step in which the insert of call k answers: with an error no entry of
\* its id is left and the other entries are as they were, and no row is
\* stored; without one the list is untouched and the row is stored under
\* the id the item was staged with
InsertAnswered(k) ==
  LET id == itemCalls[k].id
  IN  /\ addItemInsert(k, TRUE)
        => /\ id \notin IdsOf(items')
           /\ items' = Others(items, id)
           /\ UNCHANGED inventory_items
      /\ addItemInsert(k, FALSE)
        => /\ UNCHANGED items
           /\ inventory_items'[id].present
           /\ \A j \in ItemIds : j # id => inventory_items'[j] = inventory_items[j]

----------------------------------------------------------------------------
(* Admin role and username mapping *)

\* the rule for being an admin, on its own
AdminByRule(user, hint) ==
  \/ toLowerCase(user.role) = "admin"
  \/ normalizeUsername(IF user.username = "" THEN hint ELSE user.username) \in ADMIN_USERNAMES
  \/ toLowerCase(user.email) \in ADMIN_EMAILS

\* C12: isAdminIdentity(user, hint) is true exactly when the lower-cased role
\* is "admin", or the normalized username (the user's, else the hint) is an
\* admin username, or the lower-cased email is an admin email; it is false
\* for a missing user with an empty hint; and the isAdmin state left by
\* login, session restore and auth-state change is that value for the user
\* shown, false when no user is held.
C12_AdminByRule ==
  /\ isAdminIdentity(probe.user, probe.raw) = AdminByRule(probe.user, probe.raw)
  /\ isAdminIdentity(NoUser, probe.raw) = AdminByRule(NoUser, probe.raw)
  /\ ~isAdminIdentity(NoUser, "")
  /\ authIdentity # "" => isAdmin = AdminByRule(probe.user, currentUser)
  /\ authIdentity = "" => ~isAdmin

\* a user who is an admin by a capitalised role alone is shown as admin
C12_Witness ==
  /\ authIdentity # ""
  /\ isAdmin
  /\ probe.user.role = "Admin"
  /\ probe.user.username = "bob"
  /\ probe.user.email = "bob@vibe-user.example.com"

\* the raw username character by character: lower-cased, and kept only if
\* it is one of [a-z0-9._-]
RECURSIVE Kept(_)
Kept(s) ==
  IF Len(s) = 0 THEN ""
  ELSE LET c == LowerChar(SubSeq(s, 1, 1))
       IN  (IF c \in LocalChars THEN c ELSE "") \o Kept(SubSeq(s, 2, Len(s)))

\* the raw username without its whitespace, lower-cased
RECURSIVE Folded(_)
Folded(s) ==
  IF Len(s) = 0 THEN ""
  ELSE LET c == SubSeq(s, 1, 1)
       IN  (IF IsSpace(c) THEN "" ELSE LowerChar(c)) \o Folded(SubSeq(s, 2, Len(s)))

\* the address as the claim describes it
MappedAs(raw) == IF Kept(raw) = "" THEN "" ELSE Kept(raw) \o SyntheticDomain

\* C14: usernameToAuthEmail returns "" or <local>@vibe-user.example.com with
\* <local> the raw username lower-cased and stripped of whitespace and of
\* every character outside [a-z0-9._-]; mapping the local part again gives
\* the same address; onSignup and onLogin hand that address to the auth
\* service, so raw usernames that differ only in case or whitespace sign up
\* and log in with the same address.
C14_SameMapping ==
  /\ \A raw \in {probe.raw, probe.signupRaw} :
       /\ usernameToAuthEmail(raw) = MappedAs(raw)
       /\ usernameToAuthEmail(raw) # "" =>
            usernameToAuthEmail(BeforeAt(usernameToAuthEmail(raw))) = usernameToAuthEmail(raw)
  /\ probe.signupEmail \in {None, MappedAs(probe.signupRaw)}
  /\ probe.loginEmail \in {None, MappedAs(probe.raw)}
  /\ (Folded(probe.raw) = Folded(probe.signupRaw)
        /\ probe.signupEmail # None /\ probe.loginEmail # None)
       => probe.signupEmail = probe.loginEmail

\* signed up as "B o b", logged in as " Bob ", with the same address
C14_Witness ==
  /\ probe.signupRaw = "B o b"
  /\ probe.raw = " Bob "
  /\ probe.signupEmail = "bob@vibe-user.example.com"
  /\ probe.loginEmail = probe.signupEmail
  /\ session # None
----------------------------------------------------------------------------
(* Feedback visibility *)

\* a feedback row sent by the user shown
SentByCurrentUser(f) ==
  IF authIdentity # "" THEN f.sender_user_id = authIdentity
  ELSE f.sender_username = currentUser

\* C11: whenever a non-admin user is logged in, every row of feedbackRows
\* was sent by that user (by id, or by username when the id is unknown).
C11_OwnFeedbackOnly ==
  (currentUser # "" /\ ~isAdmin) => \A f \in feedbackRows : SentByCurrentUser(f)
----------------------------------------------------------------------------
(* The duplicate check of the edge function, checked under SpecNotify *)

\* the duplicate check of invocation i answers in this step
DupCheckAnswers(i) == inv[i].pc = "dupcheck" /\ inv'[i].pc # "dupcheck"

\* notification_logs holds a failed row of today for the payload's
\* consumable and no sent one
OnlyFailedToday(i) ==
  /\ \E r \in notification_logs :
       /\ r.consumable_id = inv[i].payload.consumable_id
       /\ r.status = "failed"
       /\ r.sent_at >= inv[i].midnight
  /\ ~HasSentToday(i)

\* invocation i goes from the recipient lookup to the email API when the
\* lookup finds an address, and the request is then made
GoesOnToSend(i) ==
  /\ (FnLookup(i, FALSE) /\ realEmails # {}) => inv'[i].pc = "send"
  /\ (inv[i].pc = "send" /\ inv'[i].pc # "send") =>
       \E b \in brevoCalls' \ brevoCalls :
         b.inv = i /\ b.consumable_id = inv[i].payload.consumable_id

\* C21: a row with status "failed" never makes the function skip: a
\* duplicate check that meets only failed rows of today for the consumable
\* goes on to the recipient lookup and from there to the email API, and the
\* check answers "already sent" only when a "sent" row of today exists.
C21_FailedDoesNotSuppress ==
  [][\A i \in InvIds :
       /\ (DupCheckAnswers(i) /\ OnlyFailedToday(i)) => inv'[i].pc = "lookup"
       /\ (DupCheckAnswers(i) /\ inv'[i].response = AlreadySent) => HasSentToday(i)
       /\ inv[i].seen = "failed" => GoesOnToSend(i)]_vars

\* after a failed send for a consumable, a later invocation of the same day
\* met the failed row in its duplicate check and called the email API
C21_Witness ==
  \E i \in InvIds :
    /\ inv[i].pc = "log"
    /\ inv[i].seen = "failed"
    /\ \E b \in CallsOf(i) : b.outcome = "ok"
    /\ \E j \in InvIds \ {i} : \E b \in CallsOf(j) :
         /\ b.outcome = "notok"
         /\ b.consumable_id = inv[i].payload.consumable_id
         /\ \E r \in RowsOf(j) : r.status = "failed" /\ r.sent_at >= inv[i].midnight

\* C22: when the duplicate-check query returns an error the function does
\* not stop: it goes on to the recipient lookup, also when a "sent" row of
\* today exists, and from there to the email API as an invocation does that
\* found no row.
C22_CheckErrorGoesOn ==
  [][\A i \in InvIds :
       /\ FnDupCheck(i, TRUE) => (inv'[i].pc = "lookup" /\ inv'[i].response = NoResponse)
       /\ inv[i].seen = "error" => GoesOnToSend(i)]_vars

\* an invocation whose duplicate check failed sent the email although a row
\* sent the same day was there
C22_Witness ==
  \E i \in InvIds :
    /\ inv[i].pc = "log"
    /\ inv[i].seen = "error"
    /\ \E b \in CallsOf(i) : b.outcome = "ok"
    /\ \E r \in notification_logs :
         /\ r.id # i
         /\ r.status = "sent"
         /\ r.consumable_id = inv[i].payload.consumable_id
         /\ r.sent_at >= inv[i].midnight
----------------------------------------------------------------------------
(* Bulk check, add and edit of equipment, checked under SpecInventory *)

\* a step in which setAllChecked call k sets the list and starts its load
SetsList(k) ==
  /\ itemCalls[k].fn = "setAllChecked"
  /\ itemCalls[k].pc # "load"
  /\ itemCalls'[k].pc = "load"

\* some stored row has checked = v
SomeRowChecked(v) ==
  \E id \in ItemIds : inventory_items[id].present /\ inventory_items[id].checked = v

TableNonEmpty == \E id \in ItemIds : inventory_items[id].present

\* C23: setAllChecked(v) sets checked = v on every entry of the list only
\* after the bulk update returned no error and, the table being non-empty,
\* with a stored row that has checked = v; a call that ends on a missing
\* session, an update error or the policy toast leaves the list as it was
\* and has started no load.
C23_SetsOnlyAfterUpdate ==
  [][\A k \in ItemCallIds :
       /\ SetsList(k) =>
            /\ itemCalls[k].pc \in {"count", "changedCount"}
            /\ TableNonEmpty => SomeRowChecked(itemCalls[k].checked)
            /\ Len(items') = Len(items)
            /\ \A n \in 1..Len(items) : items'[n].checked = itemCalls[k].checked
       /\ (itemCalls[k].fn = "setAllChecked" /\ itemCalls'[k].pc = "done"
             /\ itemCalls[k].pc \in {"getUser", "update", "changedCount"}) =>
            items' = items]_vars

\* the addItem calls between setIsAdding(true) and their finally
AddsInFlight ==
  { k \in ItemCallIds :
      itemCalls[k].fn = "addItem" /\ itemCalls[k].pc \in {"getUser", "insert"} }

\* at most one addItem call is in flight, and isAdding is true exactly
\* while one is
OneAddAtATime ==
  /\ Cardinality(AddsInFlight) <= 1
  /\ isAdding <=> AddsInFlight # {}

\* a submission by an admin while isAdding is true ends at once: nothing is
\* staged, nothing is sent, isAdding stays
SubmissionWhileAdding(k) ==
  (itemCalls[k].pc = "idle" /\ itemCalls'[k].fn = "addItem" /\ isAdding)
    => /\ itemCalls'[k].pc = "done"
       /\ ~itemCalls'[k].sent
       /\ UNCHANGED <<items, inventory_items, lastRequest, isAdding>>

\* C24: at most one addItem insert is in flight at a time: a submission made
\* while isAdding is true returns without staging an item or sending an
\* insert, and isAdding is false whenever no addItem call that set it is
\* still running, whichever way the call ended.
C24_OneAddAtATime ==
  []OneAddAtATime /\ [][\A k \in ItemCallIds : SubmissionWhileAdding(k)]_vars

\* while the insert of one call is in flight, a later submission by the
\* admin has ended without sending anything
C24_Witness ==
  \E k, j \in ItemCallIds :
    /\ k < j
    /\ itemCalls[k].fn = "addItem"
    /\ itemCalls[k].pc = "insert"
    /\ isAdding
    /\ itemCalls[j].fn = "addItem"
    /\ itemCalls[j].pc = "done"
    /\ itemCalls[j].isAdmin
    /\ ~itemCalls[j].sent

\* upsertItem call k starts in this step
UpsertStarts(k) == itemCalls[k].pc = "idle" /\ itemCalls'[k].fn = "upsertItem"

\* nothing is sent and no row changes in this step, and call k has ended
\* without having sent anything
EndsUnsent(k) ==
  /\ itemCalls'[k].pc = "done"
  /\ ~itemCalls'[k].sent
  /\ UNCHANGED <<inventory_items, lastRequest>>

\* C25: upsertItem sends no update to inventory_items when the id starts
\* with "tmp_" (it loads the list instead) or when getUser reports no user;
\* in both cases the stored rows are unchanged.
C25_NoUpdateWithoutIdOrUser ==
  [][\A k \in ItemCallIds :
       /\ (UpsertStarts(k) /\ StartsWith(itemCalls'[k].id, "tmp_")) =>
            /\ EndsUnsent(k)
            /\ mayUpsert(isAdmin, itemCalls'[k].keys) =>
                 \/ items' = mapDbItem(inventory_items)
                      /\ toast' = "Syncing item, please try again."
                 \/ items' = items /\ toast' = "Load error"
       /\ (itemCalls[k].fn = "upsertItem" /\ itemCalls[k].pc = "getUser"
             /\ itemCalls'[k].pc # "getUser" /\ session = None) =>
            /\ EndsUnsent(k)
            /\ toast' = "Session expired. Please log in again."
            /\ UNCHANGED items]_vars

\* one upsertItem call for a placeholder id has loaded the list instead,
\* another has ended on the missing session; neither sent an update
C25_Witness ==
  \E k, j \in ItemCallIds :
    /\ itemCalls[k].fn = "upsertItem"
    /\ itemCalls[k].pc = "done"
    /\ itemCalls[k].id = "tmp_1"
    /\ mayUpsert(itemCalls[k].isAdmin, itemCalls[k].keys)
    /\ ~itemCalls[k].sent
    /\ itemCalls[j].fn = "upsertItem"
    /\ itemCalls[j].pc = "done"
    /\ itemCalls[j].id \in ItemIds
    /\ mayUpsert(itemCalls[j].isAdmin, itemCalls[j].keys)
    /\ ~itemCalls[j].sent
    /\ session = None
    /\ toast = "Session expired. Please log in again."
    /\ lastRequest = NoRequest

\* the column a key of partial is written to
ColumnOf(key) ==
  CASE key = "name" -> "item_name"
    [] key = "note" -> "notes"
    [] OTHER -> key

\* the columns an update for these keys may change
ColumnsFor(keys) == { ColumnOf(key) : key \in keys \ {"id"} } \cup {"updated_by"}

\* the value of a column of a row
Col(row, col) ==
  CASE col = "item_name" -> row.item_name
    [] col = "checked" -> IF row.checked THEN "true" ELSE "false"
    [] OTHER -> row.updated_by

\* the update of upsertItem call k is sent in this step: its columns are
\* those of the keys of partial, and updated_by
SendsPatch(k) ==
  (itemCalls[k].fn = "upsertItem" /\ itemCalls[k].pc = "getUser"
     /\ itemCalls'[k].pc = "update")
    => /\ lastRequest'.handler = "upsertItem"
       /\ lastRequest'.op = "update"
       /\ lastRequest'.cols = ColumnsFor(itemCalls[k].keys)

\* the update of upsertItem call k is applied in this step: the rows of
\* other ids and the columns outside the patch are as before, the columns
\* given in partial hold its values
AppliesPatch(k) ==
  LET c == itemCalls[k]
  IN  upsertItemUpdate(k, FALSE, FALSE) \/ upsertItemUpdate(k, FALSE, TRUE)
        => /\ \A id \in ItemIds \ {c.id} : inventory_items'[id] = inventory_items[id]
           /\ inventory_items'[c.id].present = inventory_items[c.id].present
           /\ \A col \in {"item_name", "checked", "updated_by"} \ ColumnsFor(c.keys) :
                Col(inventory_items'[c.id], col) = Col(inventory_items[c.id], col)
           /\ inventory_items[c.id].present =>
                /\ "name" \in c.keys => inventory_items'[c.id].item_name = trim(c.name)
                /\ "checked" \in c.keys => inventory_items'[c.id].checked = c.checked
                /\ inventory_items'[c.id].updated_by = c.user

\* C26: the update upsertItem sends changes only the row whose id is
\* partial.id, and of it only the columns whose keys are in partial, and
\* updated_by; every column whose key is absent is left as it was.
C26_PatchesGivenColumnsOnly ==
  [][\A k \in ItemCallIds : SendsPatch(k) /\ AppliesPatch(k)]_vars

\* an update with the key checked alone has been applied to a row: the row
\* is checked by another user and has kept its name
C26_Witness ==
  \E k \in ItemCallIds :
    /\ itemCalls[k].fn = "upsertItem"
    /\ itemCalls[k].pc = "done"
    /\ itemCalls[k].sent
    /\ itemCalls[k].keys = {"id", "checked"}
    /\ itemCalls[k].checked
    /\ itemCalls[k].user = "u2"
    /\ toast = "Saved"
    /\ inventory_items[itemCalls[k].id].present
    /\ inventory_items[itemCalls[k].id].checked
    /\ inventory_items[itemCalls[k].id].item_name = "drill"
    /\ inventory_items[itemCalls[k].id].updated_by = "u2"
----------------------------------------------------------------------------
(* Logout, checked under SpecFeedback *)

\* C27: after onLogout has completed and until the next login, currentUser
\* is empty, isAdmin is false, and items, consumables and feedbackRows are
\* empty, whatever load responses arrive in that time.
C27_EmptyAfterLogout ==
  probe.lastAuth = "logout" =>
    /\ currentUser = ""
    /\ ~isAdmin
    /\ items = <<>>
    /\ \A id \in StoredIds : consumables[id] = NoEntry
    /\ feedbackRows = {}
----------------------------------------------------------------------------
(* The legacy migration, checked under SpecMigration *)

\* the number of inserts of the legacy list that succeeded, over all loads
RECURSIVE MigrationsUpTo(_)
MigrationsUpTo(n) == IF n = 0 THEN 0 ELSE loads[n].migrations + MigrationsUpTo(n - 1)

\* a load sends the migration's insert in this step
SendsMigration(l) == loads[l].pc = "select" /\ loads'[l].pc = "insert"

\* C28: the migration runs only when the server returns no consumables and
\* the legacy list is non-empty; each legacy entry is inserted at most once
\* over every interleaving of loads; the legacy key is removed only after
\* the insert succeeded; and a load starts at most one nested load, one per
\* successful migration.
C28_MigratesOnce ==
  /\ [](MigrationsUpTo(MaxLoads) <= 1)
  /\ [](\A l \in LoadIds : loads[l].nested <= 1 /\ loads[l].nested = loads[l].migrations)
  /\ [][/\ \A l \in LoadIds :
            SendsMigration(l) =>
              /\ \A id \in DOMAIN consumables_items : ~consumables_items[id].present
              /\ legacy # {}
        /\ legacy' # legacy =>
             /\ legacy' = {}
             /\ \E l \in LoadIds :
                  /\ loads[l].pc = "insert"
                  /\ loads'[l].migrations = loads[l].migrations + 1]_vars
----------------------------------------------------------------------------
(* The equipment page, checked under SpecPagesLive *)

\* the equipment page is the active one and the user is no admin
NonAdminOnEquipment == activePage = "equipment" /\ ~isAdmin

\* a non-admin clicks the Equipment tab or a search result of equipment
NonAdminAsksForEquipment ==
  /\ ~isAdmin
  /\ \/ onEquipmentTab
     \/ \E r \in PageResults : r.page = "equipment" /\ jumpToSearchResult(r)

\* C29: for a non-admin the Equipment tab and jumpToSearchResult on an
\* equipment result leave activePage unchanged; while activePage is
\* "equipment" and isAdmin is false the equipment view is not rendered and
\* the guard effect is due, its step sets activePage to "consumables", and
\* that state never lasts.
C29_NoEquipmentForNonAdmin ==
  /\ [](NonAdminOnEquipment =>
          ~rendersEquipment(activePage, isAdmin) /\ ENABLED effectPageGuard)
  /\ [](rendersEquipment(activePage, isAdmin) => isAdmin)
  /\ [][NonAdminAsksForEquipment => activePage' = activePage]_vars
  /\ [][effectPageGuard => NonAdminOnEquipment /\ activePage' = "consumables"]_vars
  /\ (NonAdminOnEquipment ~> ~NonAdminOnEquipment)

\* the guard has reset the page after a role change, and a non-admin was
\* turned away from an equipment result
C29_Witness ==
  /\ view.guardReset
  /\ ~isAdmin
  /\ currentUser # ""
  /\ activePage = "consumables"
  /\ toast = "You don't have priviledge, please contact admin"
----------------------------------------------------------------------------
(* The global search, checked under SpecSearch *)

\* the query as the search compares it
TrimmedLowerQuery == toLowerCase(trim(globalSearch))

\* the entries of both lists whose name holds the query, whatever the role
MatchingEntries ==
  { x \in Range(listed.items) \cup Range(listed.consumables) :
      Includes(toLowerCase(x.name), TrimmedLowerQuery) }

\* C30: globalSearchResults is empty for a blank query; otherwise every
\* entry's name contains the trimmed lower-cased query, equipment entries
\* come before consumable entries, there are at most 8 entries, and no
\* entry is of equipment when the user is not an admin.
C30_SearchResults ==
  LET R == shownResults
  IN  /\ trim(globalSearch) = "" => R = <<>>
      /\ \A n \in 1..Len(R) :
           /\ Includes(toLowerCase(R[n].name), TrimmedLowerQuery)
           /\ R[n].page \in {"equipment", "consumables"}
           /\ ~isAdmin => R[n].page # "equipment"
           /\ \A k \in 1..(n - 1) : R[k].page = "consumables" => R[n].page = "consumables"
      /\ Len(R) <= 8

\* an admin's query typed with blanks and capitals matches nine entries of
\* both lists and eight are shown, equipment first
C30_Witness ==
  /\ isAdmin
  /\ globalSearch # TrimmedLowerQuery
  /\ Cardinality(MatchingEntries) > 8
  /\ Len(shownResults) = 8
  /\ shownResults[1].page = "equipment"
  /\ shownResults[8].page = "consumables"

====
